---------------------------- MODULE Spec2Model ----------------------------
(***************************************************************************)
(* A model of src/base/platform/platform-win32.cc: the Win32 backend of    *)
(* the platform abstraction layer (virtual memory, memory mapped files,    *)
(* native threads, symbol loading).                                        *)
(*                                                                         *)
(* Addresses are counted in commit pages; address 0 is nullptr.  Each      *)
(* component of the file has its own specification (SpecMem, SpecFile,     *)
(* SpecThread, SpecSym) over the variables of that component.              *)
(***************************************************************************)
EXTENDS Integers, Sequences, FiniteSets, TLC

VARIABLES
  mem,        \* the process's address space: page -> [base, commit, prot]
  thr,        \* per calling thread: position inside OS::Allocate and locals
  use_aslr,   \* static BOOL use_aslr of RandomizedVirtualAlloc
  win10,      \* IsWindows10OrGreater()
  discard_virtual_memory,  \* static atomic of DiscardSystemPages
  debug_build,  \* the build has DEBUG defined: DCHECKs are compiled in
  misuse,     \* the callers also pass arguments that break preconditions
  aborted,    \* "no", or the CHECK or fault that killed the process
  files,      \* the file system: path -> [exists, bytes]
  handles,    \* the OS handle table: handle -> [kind, path]
  views,      \* the mapped views: pointer -> [mapped, path, size, anon]
  objs,       \* the live Win32MemoryMappedFile objects
  created,    \* (history) what the last create() of a path wrote
  lastcall,   \* the last call of the mapped-file component and its result
  thread_,    \* data_->thread_ of the Thread object
  thread_id_, \* data_->thread_id_ of the Thread object
  start,      \* the position of the creator inside Thread::Start
  osthread,   \* the OS thread behind the object: none, running, terminated
  selfjoin,   \* the Join() the spawned thread makes on its own object
  joiner,     \* the calls of Join() by the other threads
  dll_funcs,  \* the dynamically loaded functions whose pointer is not null
  dbghelp_loaded,   \* static of LoadDbgHelpAndTlHelp32
  symbols_loaded,   \* static of LoadSymbols
  result,           \* static of LoadSymbols
  sym_initialized,  \* the symbol engine is initialised for the process
  snapshots,        \* the number of module snapshots not closed
  missing,          \* the functions the two libraries do not export
  caller,           \* the calls of GetSharedLibraryAddresses
  memo,             \* the sequence the first successful pass returned
  resolve_failed,   \* some call failed to resolve the capability
  os_config,  \* the time zone configured in the OS and the environment
  crt_tz,     \* the time zone state of the C runtime, set by _tzset()
  time32,     \* the build has 32-bit time_t (_USE_32BIT_TIME_T)
  tzcache,    \* the WindowsTimezoneCache objects
  tzlast,     \* the last query of a Win32Time and what it returned
  tz_thr,     \* per thread: its call of LocalOffset on the first cache
  tls_alloc,  \* the TLS indexes of the process that are allocated
  tls_value,  \* the TLS slots: thread -> index -> value
  tls_keys,   \* the keys CreateThreadLocalKey returned, not deleted since
  tls_set,    \* (history) thread -> key -> the value of its last Set
  tls_last,   \* the last call of GetThreadLocal and what it returned
  g_hard_abort,  \* bool g_hard_abort (line 34)
  proc_env,   \* a debugger is attached; a handler of SIGABRT is installed
  stdio,      \* the bytes buffered in stdout and in stderr
  abort_call, \* the call of OS::Abort: its position and what it has done
  rng,        \* per run of the program: the platform random number generator
  rng_hist,   \* (history) per run: the seeds passed, the addresses drawn
  rng_mutex,  \* rng_mutex (line 616): the thread that holds it, or "free"
  rng_thr     \* per thread of the first run: its call of the random source

memVars == <<mem, thr, use_aslr, win10, discard_virtual_memory, debug_build,
            misuse>>

fileVars == <<files, handles, views, objs, created, lastcall>>

threadVars == <<thread_, thread_id_, start, osthread, selfjoin, joiner>>

symVars == <<dll_funcs, dbghelp_loaded, symbols_loaded, result,
             sym_initialized, snapshots, missing, caller, memo,
             resolve_failed>>

tzVars == <<os_config, crt_tz, time32, tzcache, tzlast, tz_thr>>

tlsVars == <<tls_alloc, tls_value, tls_keys, tls_set, tls_last>>

abortVars == <<g_hard_abort, proc_env, stdio, abort_call>>

rngVars == <<rng, rng_hist, rng_mutex, rng_thr>>

miscVars == <<tzVars, tlsVars, abortVars, rngVars>>

\* what the actions of the random source leave alone
besidesRng ==
  <<memVars, aborted, fileVars, threadVars, symVars, tzVars, tlsVars,
    abortVars>>

\* what the actions of the local-time component leave alone
besidesTz ==
  <<memVars, aborted, fileVars, threadVars, symVars, tlsVars, abortVars,
    rngVars>>

\* what the actions of thread-local storage leave alone, but for aborted
besidesTls ==
  <<memVars, fileVars, threadVars, symVars, tzVars, abortVars, rngVars>>

\* what the actions of OS::Initialize and OS::Abort leave alone, but for
\* aborted
besidesAbort ==
  <<memVars, fileVars, threadVars, symVars, tzVars, tlsVars, rngVars>>

vars == <<memVars, aborted, fileVars, threadVars, symVars, miscVars>>

-----------------------------------------------------------------------------
(* Bounds of the model *)

\* the address space holds MaxGranules allocation granules, the first of
\* which (the one of nullptr) is never handed out
MaxGranules == 4

\* files hold at most MaxFileLen bytes
MaxFileLen == 2

\* the handle table has MaxHandles entries, the process MaxViews view slots
MaxHandles == 3

MaxViews == 2

-----------------------------------------------------------------------------
(* Virtual memory: src/base/platform/platform-win32.cc lines 614-832 *)

Threads == {"t1", "t2"}

\* OS::CommitPageSize(): the unit of addresses in this model
CommitPageSize == 1

\* OS::AllocatePageSize(): dwAllocationGranularity, here two commit pages
AllocatePageSize == 2

kMaxAttempts == 3

Pages == 0 .. (MaxGranules * AllocatePageSize - 1)

nullptr == 0

MemoryPermission ==
  {"kNoAccess", "kNoAccessWillJitLater", "kRead", "kReadWrite",
   "kReadWriteExecute", "kReadExecute"}

\* the inputs the callers draw from; the second thread, which is there to
\* contend for address space, asks for one permission that takes the hint and
\* reserves only, and for the one that never takes the hint
PermissionsOf(t) ==
  IF t = "t1" THEN MemoryPermission ELSE {"kNoAccess", "kReadWrite"}

Hints      == {nullptr, 5}
\* a caller that breaks the preconditions also asks for a commit page
Sizes ==
  {AllocatePageSize, 2 * AllocatePageSize}
    \cup (IF misuse THEN {CommitPageSize} ELSE {})

Alignments ==
  {AllocatePageSize, 2 * AllocatePageSize}
    \cup (IF misuse THEN {CommitPageSize} ELSE {})

FreePage == [base |-> 0, commit |-> FALSE, prot |-> "none"]

\* RoundDown / RoundUp / AlignedAddress of src/base/macros.h
RoundDown(x, m) == x - (x % m)

RoundUp(x, m) == RoundDown(x + m - 1, m)

AlignedAddress(address, alignment) == RoundDown(address, alignment)

\* line 680: the protection constant of a permission
GetProtectionFromMemoryPermission(access) ==
  CASE access \in {"kNoAccess", "kNoAccessWillJitLater"} -> "PAGE_NOACCESS"
    [] access = "kRead"             -> "PAGE_READONLY"
    [] access = "kReadWrite"        -> "PAGE_READWRITE"
    [] access = "kReadWriteExecute" ->
         IF win10 THEN "PAGE_EXECUTE_READWRITE|PAGE_TARGETS_INVALID"
                  ELSE "PAGE_EXECUTE_READWRITE"
    [] access = "kReadExecute"      ->
         IF win10 THEN "PAGE_EXECUTE_READ|PAGE_TARGETS_INVALID"
                  ELSE "PAGE_EXECUTE_READ"

\* lines 737-739
AllocateFlags(access) ==
  IF access = "kNoAccess" THEN {"MEM_RESERVE"} ELSE {"MEM_RESERVE", "MEM_COMMIT"}

(* The OS primitives, as the calls of this file use them *)

RangeOf(b, n) == b .. (b + n - 1)

RangeFree(m, b, n) ==
  /\ n > 0
  /\ b >= AllocatePageSize
  /\ \A p \in RangeOf(b, n) : p \in Pages /\ m[p].base = 0

\* every page of the range lies in one reserved region
RangeReserved(m, b, n) ==
  /\ n > 0
  /\ b \in Pages
  /\ m[b].base # 0
  /\ \A p \in RangeOf(b, n) : p \in Pages /\ m[p].base = m[b].base

RangeCommitted(m, b, n) ==
  RangeReserved(m, b, n) /\ \A p \in RangeOf(b, n) : m[p].commit

RegionBases == {b \in Pages : b >= AllocatePageSize /\ b % AllocatePageSize = 0}

\* VirtualAlloc(address, size, flags, protect): the set of results the OS may
\* give, each the new address space and the address returned (0 on failure).
\* A request that reserves or commits may fail in any state.
VirtualAlloc(m, address, size, flags, protect) ==
  LET fail == [mem |-> m, base |-> nullptr]
      place(b) ==
        [mem |-> [p \in Pages |->
                    IF p \in RangeOf(b, size)
                    THEN [base |-> b, commit |-> ("MEM_COMMIT" \in flags),
                          prot |-> protect]
                    ELSE m[p]],
         base |-> b]
      commit ==
        [mem |-> [p \in Pages |->
                    IF p \in RangeOf(address, size)
                    THEN [m[p] EXCEPT !.commit = TRUE, !.prot = protect]
                    ELSE m[p]],
         base |-> address]
  IN  IF "MEM_RESERVE" \in flags
      THEN LET cands == IF address = nullptr
                        THEN {b \in RegionBases : RangeFree(m, b, size)}
                        ELSE {b \in {RoundDown(address, AllocatePageSize)} :
                                RangeFree(m, b, size)}
           IN  {place(b) : b \in cands} \cup {fail}
      ELSE IF flags = {"MEM_COMMIT"}
      THEN (IF address # nullptr /\ RangeReserved(m, address, size)
            THEN {commit} ELSE {}) \cup {fail}
      ELSE \* MEM_RESET
           IF address # nullptr /\ RangeCommitted(m, address, size)
           THEN {[mem |-> m, base |-> address]} ELSE {fail}

\* (mutant) the region stays reserved
VirtualFreeRelease_Keeps(m, address) == [mem |-> m, ok |-> TRUE]

\* VirtualFree(address, 0, MEM_RELEASE)
VirtualFreeRelease(m, address) ==
  IF address # nullptr /\ address \in Pages /\ m[address].base = address
  THEN [mem |-> [p \in Pages |-> IF m[p].base = address THEN FreePage ELSE m[p]],
        ok |-> TRUE]
  ELSE [mem |-> m, ok |-> FALSE]

\* VirtualFree(address, size, MEM_DECOMMIT)
VirtualFreeDecommit(m, address, size) ==
  IF address # nullptr /\ RangeReserved(m, address, size)
  THEN [mem |-> [p \in Pages |->
                   IF p \in RangeOf(address, size)
                   THEN [m[p] EXCEPT !.commit = FALSE] ELSE m[p]],
        ok |-> TRUE]
  ELSE [mem |-> m, ok |-> FALSE]

-----------------------------------------------------------------------------
(* OS::Allocate, one action per OS request (lines 729-779) *)

\* the variables of the other components
others == <<fileVars, threadVars, symVars, miscVars>>

IdleThread ==
  [pc |-> "idle", hint |-> nullptr, size |-> 0, alignment |-> 0,
   access |-> "kNoAccess", padded |-> FALSE, base |-> nullptr,
   aligned_base |-> nullptr, i |-> 0, lost |-> 0, hinted |-> FALSE,
   result |-> nullptr, op |-> "none", osfail |-> FALSE, ret |-> "none",
   pre |-> "ok", opsize |-> 0]

Running == aborted = "no"

\* DCHECK(condition) lets the call go on: the macro of src/base/logging.h is
\* compiled in only when DEBUG is defined, and is then fatal when the
\* condition is false
DCHECK(condition) == debug_build => condition

\* (history) how the arguments of a call stand to its preconditions: "ok",
\* "dcheck" when they break a condition the function DCHECKs, "granularity"
\* when they only are no multiples of the allocation granularity
PreOf(checked, granular) ==
  IF ~checked THEN "dcheck" ELSE IF ~granular THEN "granularity" ELSE "ok"

\* the call op died in a DCHECK before it did anything
Fatal(op) == [IdleThread EXCEPT !.op = op, !.pre = "dcheck"]

\* (mutant) the size is not checked
AllocatePre_SizeUnchecked(size, alignment) ==
  alignment % AllocatePageSize = 0 /\ AllocatePageSize <= alignment

\* lines 732-734
AllocatePre(size, alignment) ==
  /\ size % AllocatePageSize = 0
  /\ alignment % AllocatePageSize = 0
  /\ AllocatePageSize <= alignment

\* (mutant) every address passes for aligned
IsAligned_Always(base, alignment) == TRUE

\* lines 747-749: "If address is suitably aligned, we're done."
IsAligned(base, alignment) == base = RoundUp(base, alignment)

\* (mutant) the larger request asks for size bytes again
PaddedSize_Unpadded(size, alignment) == size

\* line 759
PaddedSize(size, alignment) == size + (alignment - AllocatePageSize)

\* (mutant) the base is rounded down
TrimmedAddress_Down(base, alignment) == RoundDown(base, alignment)

\* lines 769-770: the address of the trimmed request
TrimmedAddress(base, alignment) == RoundUp(base, alignment)

\* (mutant) the aligned address is handed back whatever VirtualAlloc said
AllocateReturn_Aligned(base, aligned_base) == aligned_base

\* line 778: what the padded loop hands back
AllocateReturn(base, aligned_base) == base

\* the size of the request RandomizedVirtualAlloc is making for thread t
RequestSize(r) == IF r.padded THEN PaddedSize(r.size, r.alignment) ELSE r.size

\* the call returns value; its locals other than the loop counter are dead
Return(r, value) ==
  [r EXCEPT !.pc = "ret", !.result = value, !.base = nullptr,
            !.hint = nullptr, !.padded = FALSE, !.aligned_base = nullptr,
            !.hinted = FALSE]

\* lines 744-752 and 764-768: what Allocate does with RandomizedVirtualAlloc's
\* result
AfterRandomizedVirtualAlloc(r, base) ==
  IF base = nullptr THEN Return(r, nullptr)
  ELSE IF r.padded THEN [r EXCEPT !.base = base, !.pc = "free_padded"]
  ELSE IF IsAligned(base, r.alignment) THEN Return(r, base)
  ELSE [r EXCEPT !.base = base, !.pc = "free_first"]

\* lines 729-740: entry, with the hint normalised
AllocateCall(t) ==
  /\ Running
  /\ \/ thr[t].pc = "idle"
     \/ thr[t].pc = "ret" /\ thr[t].result = nullptr
  /\ \E hint \in Hints, size \in Sizes, alignment \in Alignments,
        access \in PermissionsOf(t) :
       IF DCHECK(AllocatePre(size, alignment))
       THEN /\ thr' = [thr EXCEPT ![t] =
                 [IdleThread EXCEPT !.pc = "rva_hint",
                                    !.hint = AlignedAddress(hint, alignment),
                                    !.size = size, !.alignment = alignment,
                                    !.access = access,
                                    !.pre = PreOf(AllocatePre(size, alignment),
                                                  TRUE)]]
            /\ aborted' = aborted
       ELSE /\ thr' = [thr EXCEPT ![t] = Fatal("Allocate")]
            /\ aborted' = "DCHECK in Allocate"
  /\ UNCHANGED <<mem, use_aslr, win10, debug_build, misuse,
                 discard_virtual_memory, others>>

\* line 714: if (use_aslr && protect != PAGE_READWRITE)
UsesHint(aslr, protect) == aslr /\ protect # "PAGE_READWRITE"

\* (mutant) RandomizedVirtualAlloc gives up when the hinted request fails
RetryUnhinted_GiveUp(r) == Return(r, nullptr)

\* lines 719-720: base is still null, the request with no address is next
RetryUnhinted(r) == [r EXCEPT !.pc = "rva_nohint"]

\* lines 714-717: the request at the hint, made for every protection but
\* PAGE_READWRITE
RvaHinted(t) ==
  /\ Running
  /\ thr[t].pc = "rva_hint"
  /\ LET protect == GetProtectionFromMemoryPermission(thr[t].access)
         \* (history) the OS was asked for the address of the caller's hint
         r == [thr[t] EXCEPT !.hinted = (@ \/ thr[t].hint # nullptr)]
     IN  IF UsesHint(use_aslr, protect)
         THEN \E o \in VirtualAlloc(mem, r.hint, RequestSize(r),
                                    AllocateFlags(r.access), protect) :
                /\ mem' = o.mem
                /\ thr' = [thr EXCEPT ![t] =
                     IF o.base = nullptr THEN RetryUnhinted(r)
                     ELSE AfterRandomizedVirtualAlloc(r, o.base)]
         ELSE /\ mem' = mem
              /\ thr' = [thr EXCEPT ![t] = RetryUnhinted(thr[t])]
  /\ UNCHANGED <<use_aslr, win10, debug_build, misuse, discard_virtual_memory, aborted, others>>

\* lines 720-722: "On failure, let the OS find an address to use."
RvaUnhinted(t) ==
  /\ Running
  /\ thr[t].pc = "rva_nohint"
  /\ LET r == thr[t]
     IN  \E o \in VirtualAlloc(mem, nullptr, RequestSize(r),
                               AllocateFlags(r.access),
                               GetProtectionFromMemoryPermission(r.access)) :
           /\ mem' = o.mem
           /\ thr' = [thr EXCEPT ![t] = AfterRandomizedVirtualAlloc(r, o.base)]
  /\ UNCHANGED <<use_aslr, win10, debug_build, misuse, discard_virtual_memory, aborted, others>>

\* lines 752-761: CHECK(Free(base, size)), then the padded loop starts
FreeMisaligned(t) ==
  /\ Running
  /\ thr[t].pc = "free_first"
  /\ LET r == thr[t]
         f == VirtualFreeRelease(mem, r.base)
     IN  /\ mem' = f.mem
         /\ aborted' = IF f.ok THEN aborted ELSE "CHECK(Free) in Allocate"
         /\ thr' = [thr EXCEPT ![t] =
                      [r EXCEPT !.pc = "rva_hint", !.hint = nullptr,
                                !.padded = TRUE, !.aligned_base = nullptr,
                                !.i = 0]]
  /\ UNCHANGED <<use_aslr, win10, debug_build, misuse, discard_virtual_memory, others>>

\* lines 768-770: CHECK(Free(base, padded_size)), aligned_base computed
FreePadded(t) ==
  /\ Running
  /\ thr[t].pc = "free_padded"
  /\ LET r == thr[t]
         f == VirtualFreeRelease(mem, r.base)
     IN  /\ mem' = f.mem
         /\ aborted' = IF f.ok THEN aborted ELSE "CHECK(Free) in Allocate"
         /\ thr' = [thr EXCEPT ![t] =
                      [r EXCEPT !.pc = "pin",
                                !.aligned_base =
                                   TrimmedAddress(r.base, r.alignment)]]
  /\ UNCHANGED <<use_aslr, win10, debug_build, misuse, discard_virtual_memory, others>>

\* lines 771-778: VirtualAlloc at the aligned base, the loop's test and the
\* return after the loop
AllocTrimmed(t) ==
  /\ Running
  /\ thr[t].pc = "pin"
  /\ LET r == thr[t]
         \* (history) this attempt is lost to another reservation
         l == IF RangeFree(mem, r.aligned_base, r.size)
              THEN r.lost ELSE r.lost + 1
     IN  \E o \in VirtualAlloc(mem, r.aligned_base, r.size,
                               AllocateFlags(r.access),
                               GetProtectionFromMemoryPermission(r.access)) :
           /\ mem' = o.mem
           /\ thr' = [thr EXCEPT ![t] =
                IF o.base # nullptr
                THEN Return(r, AllocateReturn(o.base, r.aligned_base))
                ELSE IF r.i + 1 < kMaxAttempts
                THEN [r EXCEPT !.i = r.i + 1, !.lost = l, !.base = nullptr,
                               !.pc = "rva_hint"]
                ELSE Return([r EXCEPT !.i = r.i + 1, !.lost = l],
                            AllocateReturn(nullptr, r.aligned_base))]
  /\ UNCHANGED <<use_aslr, win10, debug_build, misuse, discard_virtual_memory, aborted, others>>

-----------------------------------------------------------------------------
(* OS::Free, OS::Release, OS::SetPermissions, OS::DiscardSystemPages, called
   by a thread on the range it holds (lines 782-832) *)

Holding(t) == thr[t].pc \in {"ret", "held"} /\ thr[t].result # nullptr

\* the addresses and sizes a caller passes, counted in commit pages: its
\* range, a page of it, a range one page too long.  aoff and soff are the
\* bytes by which the address and the size exceed a multiple of the commit
\* page size; only a caller that breaks the preconditions passes such.
HeldRanges(r) ==
  {[address |-> r.result, size |-> r.size, aoff |-> 0, soff |-> 0],
   [address |-> r.result, size |-> CommitPageSize, aoff |-> 0, soff |-> 0],
   [address |-> r.result, size |-> r.size + CommitPageSize, aoff |-> 0,
    soff |-> 0]}
    \cup (IF misuse
          THEN {[address |-> r.result, size |-> r.size, aoff |-> 1, soff |-> 0],
                [address |-> r.result, size |-> r.size, aoff |-> 0, soff |-> 1]}
          ELSE {})

\* the pages the OS touches for such a range: those that hold a byte of it
OsSize(g) == g.size + (IF g.aoff + g.soff > 0 THEN CommitPageSize ELSE 0)

\* the addresses a caller passes to Free: the base of its range or, wrongly,
\* an address inside it
FreeAddresses(r) ==
  {r.result} \cup {a \in {r.result + AllocatePageSize} : a < r.result + r.size}
    \cup (IF misuse THEN {r.result + CommitPageSize} ELSE {})

\* the sizes a caller passes to Free
FreeSizes(r) == {r.size} \cup (IF misuse THEN {CommitPageSize} ELSE {})

\* lines 784-785
FreePre(address, size) ==
  address % AllocatePageSize = 0 /\ size % AllocatePageSize = 0

\* lines 791-792 and 798-799: address and size are multiples of
\* CommitPageSize()
CommitPagePre(g) == g.aoff = 0 /\ g.soff = 0

\* address and size are multiples of the allocation granularity
GranularityPre(g) ==
  /\ CommitPagePre(g)
  /\ g.address % AllocatePageSize = 0
  /\ g.size % AllocatePageSize = 0

\* (mutant) the result of VirtualFree is dropped
FreeResult_Ignored(ok) == TRUE

\* line 786: return VirtualFree(address, 0, MEM_RELEASE) != 0
FreeResult(ok) == ok

\* line 793
ReleaseResult(ok) == ok

\* (mutant) SetPermissions reports success whatever the OS said
SetPermissionsResult_Ignored(ok) == TRUE

\* lines 801 and 804
SetPermissionsResult(ok) == ok

\* the call op on the held range returns ret; osfail tells whether its OS
\* primitive failed.  Of Allocate's arguments only the size is still needed to
\* name the range; access holds the permission passed to SetPermissions.
Done(r, op, access, osfail, ret) ==
  [r EXCEPT !.pc = "held", !.op = op, !.osfail = osfail, !.ret = ret,
            !.access = access, !.alignment = 0, !.i = 0, !.lost = 0,
            !.hinted = FALSE, !.pre = "ok", !.opsize = 0]

WithPre(r, pre) == [r EXCEPT !.pre = pre]

\* (history) the size of the range g that Release or SetPermissions passed
\* to the OS
WithRange(r, g) == [r EXCEPT !.opsize = OsSize(g)]

\* lines 782-787
Free(t) ==
  /\ Running
  /\ Holding(t)
  /\ \E address \in FreeAddresses(thr[t]), size \in FreeSizes(thr[t]) :
       IF DCHECK(FreePre(address, size))
       THEN LET f == VirtualFreeRelease(mem, address)
                pre == PreOf(FreePre(address, size), TRUE)
            IN  /\ mem' = f.mem
                /\ aborted' = aborted
                /\ thr' = [thr EXCEPT ![t] =
                     IF f.ok
                     THEN [IdleThread EXCEPT !.op = "Free",
                                             !.ret = FreeResult(f.ok),
                                             !.result = address,
                                             !.size = thr[t].size,
                                             !.pre = pre]
                     ELSE WithPre(Done(thr[t], "Free", "kNoAccess", TRUE,
                                       FreeResult(f.ok)), pre)]
       ELSE /\ mem' = mem
            /\ aborted' = "DCHECK in Free"
            /\ thr' = [thr EXCEPT ![t] = Fatal("Free")]
  /\ UNCHANGED <<use_aslr, win10, debug_build, misuse,
                 discard_virtual_memory, others>>

\* lines 790-794
Release(t) ==
  /\ Running
  /\ Holding(t)
  /\ \E g \in HeldRanges(thr[t]) :
       IF DCHECK(CommitPagePre(g))
       THEN LET f == VirtualFreeDecommit(mem, g.address, OsSize(g))
            IN  /\ mem' = f.mem
                /\ aborted' = aborted
                /\ thr' = [thr EXCEPT ![t] =
                     WithRange(
                       WithPre(Done(thr[t], "Release", "kNoAccess", ~f.ok,
                                    ReleaseResult(f.ok)),
                               PreOf(CommitPagePre(g), GranularityPre(g))), g)]
       ELSE /\ mem' = mem
            /\ aborted' = "DCHECK in Release"
            /\ thr' = [thr EXCEPT ![t] = Fatal("Release")]
  /\ UNCHANGED <<use_aslr, win10, debug_build, misuse,
                 discard_virtual_memory, others>>

\* the caller's Free of its range succeeded and it has made no call since:
\* result and size are the range it gave back
Freed(t) ==
  /\ thr[t].pc = "idle"
  /\ thr[t].op = "Free"
  /\ thr[t].result # nullptr

\* SetPermissions has returned ret.  A caller that holds a range goes on
\* holding it; one that passed the range it had freed keeps nothing.
DoneSetPermissions(r, freed, access, osfail, ret) ==
  IF freed
  THEN [IdleThread EXCEPT !.op = "SetPermissions on freed range",
                          !.access = access, !.osfail = osfail, !.ret = ret]
  ELSE Done(r, "SetPermissions", access, osfail, ret)

\* (mutant) no permission decommits
Decommits_Never(access) == FALSE

\* line 800: if (access == MemoryPermission::kNoAccess)
Decommits(access) == access = "kNoAccess"

\* lines 797-805, called on the range the caller holds or on the range it
\* has just freed
SetPermissions(t) ==
  /\ Running
  /\ Holding(t) \/ Freed(t)
  /\ \E g \in HeldRanges(thr[t]), access \in MemoryPermission :
       LET pre == PreOf(CommitPagePre(g), GranularityPre(g))
       IN  IF ~DCHECK(CommitPagePre(g))
           THEN /\ mem' = mem
                /\ aborted' = "DCHECK in SetPermissions"
                /\ thr' = [thr EXCEPT ![t] = Fatal("SetPermissions")]
           ELSE IF Decommits(access)
           THEN LET f == VirtualFreeDecommit(mem, g.address, OsSize(g))
                IN  /\ mem' = f.mem
                    /\ aborted' = aborted
                    /\ thr' = [thr EXCEPT ![t] =
                         WithRange(
                           WithPre(DoneSetPermissions(thr[t], Freed(t), access,
                                     ~f.ok, SetPermissionsResult(f.ok)), pre),
                           g)]
           ELSE \E o \in VirtualAlloc(mem, g.address, OsSize(g),
                                      {"MEM_COMMIT"},
                                      GetProtectionFromMemoryPermission(access)) :
                  /\ mem' = o.mem
                  /\ aborted' = aborted
                  /\ thr' = [thr EXCEPT ![t] =
                       WithRange(
                         WithPre(DoneSetPermissions(thr[t], Freed(t), access,
                                   o.base = nullptr,
                                   SetPermissionsResult(o.base # nullptr)), pre),
                         g)]
  /\ UNCHANGED <<use_aslr, win10, debug_build, misuse,
                 discard_virtual_memory, others>>

\* DiscardVirtualMemory(address, size): TRUE when the OS reports success
\* (ERROR_SUCCESS); it needs a committed range and may fail on one
DiscardVirtualMemory(m, address, size) ==
  IF RangeCommitted(m, address, size) THEN {TRUE, FALSE} ELSE {FALSE}

\* lines 808-832, the whole call: the function is looked up on the first
\* call, tried if it is there, and MEM_RESET is the fallback
DiscardSystemPages(t) ==
  /\ Running
  /\ Holding(t)
  /\ \E g \in {h \in HeldRanges(thr[t]) : CommitPagePre(h)},
        resolved \in (IF discard_virtual_memory = "unresolved"
                      THEN {"null", "function"}
                      ELSE {discard_virtual_memory}) :
       /\ discard_virtual_memory' = resolved
       /\ \E discarded \in (IF resolved = "function"
                             THEN DiscardVirtualMemory(mem, g.address, g.size)
                             ELSE {FALSE}) :
            IF discarded
            THEN /\ thr' = [thr EXCEPT ![t] =
                       Done(thr[t], "DiscardSystemPages", "kNoAccess", FALSE, TRUE)]
                 /\ aborted' = aborted
            ELSE \E o \in VirtualAlloc(mem, g.address, g.size, {"MEM_RESET"},
                                       "PAGE_READWRITE") :
                   /\ thr' = [thr EXCEPT ![t] =
                         Done(thr[t], "DiscardSystemPages", "kNoAccess",
                              o.base = nullptr,
                              IF o.base # nullptr THEN TRUE ELSE "none")]
                   /\ aborted' = IF o.base # nullptr THEN aborted
                                 ELSE "CHECK(ptr) in DiscardSystemPages"
  /\ UNCHANGED <<mem, use_aslr, win10, debug_build, misuse, others>>

-----------------------------------------------------------------------------
(* Memory mapped files: lines 878-951 *)

Paths == {"f"}

Bytes == {0, 1}

HandleIds == 1 .. MaxHandles

ViewIds == 1 .. MaxViews

INVALID_HANDLE_VALUE == -1

FileMode == {"kReadOnly", "kReadWrite"}

\* the byte sequences of length n
RECURSIVE SeqsOfLen(_)
SeqsOfLen(n) ==
  IF n = 0 THEN {<<>>}
  ELSE {Append(q, b) : q \in SeqsOfLen(n - 1), b \in Bytes}

FileContents == UNION {SeqsOfLen(n) : n \in 0 .. MaxFileLen}

Zeros(n) == [k \in 1 .. n |-> 0]

Absent == [exists |-> FALSE, bytes |-> <<>>]

File(bytes) == [exists |-> TRUE, bytes |-> bytes]

Closed == [kind |-> "closed", path |-> ""]

Unmapped == [mapped |-> FALSE, path |-> "", size |-> 0, anon |-> <<>>]

\* the argument initial of create: nullptr or a buffer
NullBuffer == [null |-> TRUE, bytes |-> <<>>]

Buffer(bytes) == [null |-> FALSE, bytes |-> bytes]

OpenHandles == {h \in HandleIds : handles[h] # Closed}

\* the handle and the pointer the OS gives out next
FreshHandle(hs) == CHOOSE h \in HandleIds :
  hs[h] = Closed /\ \A g \in HandleIds : hs[g] = Closed => h <= g

FreshView == CHOOSE v \in ViewIds :
  ~views[v].mapped /\ \A w \in ViewIds : ~views[w].mapped => v <= w

\* room in the tables for one more call
RoomForCall ==
  /\ Cardinality(HandleIds \ OpenHandles) >= 2
  /\ \E v \in ViewIds : ~views[v].mapped

\* the constructor, lines 880-885
Win32MemoryMappedFile(file, file_mapping, memory, size) ==
  [file_ |-> file, file_mapping_ |-> file_mapping, memory_ |-> memory,
   size_ |-> size]

\* CloseHandle(h): closing what is no open handle changes nothing
CloseHandle(hs, h) ==
  IF h \in HandleIds THEN [hs EXCEPT ![h] = Closed] ELSE hs

\* the bytes seen through the pointer memory
ViewContent(memory) ==
  LET v == views[memory]
  IN  IF v.path = "pagefile" THEN v.anon
      ELSE SubSeq(files[v.path].bytes, 1, v.size)

\* lines 899-925: OS::MemoryMappedFile::open, the whole call.  failFile,
\* failMap and failView say which OS steps the OS refuses.
MemoryMappedFile_open(name, mode, failFile, failMap, failView) ==
  LET before == OpenHandles
      \* line 906: CreateFileA(..., OPEN_EXISTING, ...)
      fileOk == files[name].exists /\ ~failFile
      file == IF fileOk THEN FreshHandle(handles) ELSE INVALID_HANDLE_VALUE
      h1 == IF fileOk
            THEN [handles EXCEPT ![file] = [kind |-> "file", path |-> name]]
            ELSE handles
      \* line 910: GetFileSize
      size == IF fileOk THEN Len(files[name].bytes) ELSE 0
      \* lines 916-917: CreateFileMapping
      mapOk == fileOk /\ size # 0 /\ ~failMap
      file_mapping == IF mapOk THEN FreshHandle(h1) ELSE nullptr
      h2 == IF mapOk
            THEN [h1 EXCEPT ![file_mapping] =
                    [kind |-> "mapping", path |-> name]]
            ELSE h1
      \* line 923: MapViewOfFile
      viewOk == mapOk /\ ~failView
      memory == IF viewOk THEN FreshView ELSE nullptr
      v1 == IF viewOk
            THEN [views EXCEPT ![memory] =
                    [mapped |-> TRUE, path |-> name, size |-> size,
                     anon |-> <<>>]]
            ELSE views
      \* the object returned, {} for nullptr
      ret == IF file = INVALID_HANDLE_VALUE THEN {}                \* line 908
             ELSE IF size = 0
             THEN {Win32MemoryMappedFile(file, nullptr, nullptr, 0)}  \* 911
             ELSE IF file_mapping = nullptr THEN {}                \* line 918
             ELSE {Win32MemoryMappedFile(file, file_mapping, memory, size)}
  IN  /\ handles' = h2
      /\ views' = v1
      /\ objs' = objs \cup ret
      /\ lastcall' = [op |-> "open", name |-> name, size |-> size,
                      failed |-> ~fileOk \/ (size # 0 /\ (~mapOk \/ ~viewOk)),
                      ret |-> ret, before |-> before, released |-> <<>>,
                      initial |-> "none", memmove |-> FALSE]
      /\ UNCHANGED <<files, created, aborted>>

\* lines 928-944: OS::MemoryMappedFile::create, the whole call.  initial is
\* NullBuffer or the size bytes to copy; garbage is what reading through a null
\* initial yields when the process survives it.
MemoryMappedFile_create(name, size, initial, fail, fault, garbage) ==
  LET failFile == "file" \in fail
      failMap == "mapping" \in fail
      failView == "view" \in fail
      before == OpenHandles
      \* line 931: CreateFileA(..., OPEN_ALWAYS, ...) creates a missing file
      \* and keeps the bytes of an existing one
      fileOk == ~failFile
      file == IF fileOk THEN FreshHandle(handles) ELSE INVALID_HANDLE_VALUE
      h1 == IF fileOk
            THEN [handles EXCEPT ![file] = [kind |-> "file", path |-> name]]
            ELSE handles
      f1 == IF fileOk /\ ~files[name].exists
            THEN [files EXCEPT ![name] = File(<<>>)] ELSE files
      \* line 934: the test is against nullptr, which CreateFileA never
      \* returns
      giveUp == file = nullptr
      \* line 937: CreateFileMapping; with INVALID_HANDLE_VALUE the mapping
      \* is backed by the paging file; a file shorter than size is extended
      mapOk == ~giveUp /\ size # 0 /\ ~failMap
      backing == IF fileOk THEN name ELSE "pagefile"
      file_mapping == IF mapOk THEN FreshHandle(h1) ELSE nullptr
      h2 == IF mapOk
            THEN [h1 EXCEPT ![file_mapping] =
                    [kind |-> "mapping", path |-> backing]]
            ELSE h1
      f2 == IF mapOk /\ fileOk /\ Len(f1[name].bytes) < size
            THEN [f1 EXCEPT ![name].bytes = @ \o Zeros(size - Len(@))]
            ELSE f1
      \* line 941: MapViewOfFile
      viewOk == mapOk /\ ~failView
      memory == IF viewOk THEN FreshView ELSE nullptr
      \* line 942: if (memory) memmove(memory, initial, size)
      copied == IF initial.null THEN garbage ELSE initial.bytes
      crash == viewOk /\ initial.null /\ fault
      f3 == IF viewOk /\ fileOk
            THEN [f2 EXCEPT ![name].bytes =
                    [k \in 1 .. Len(@) |-> IF k <= size THEN copied[k] ELSE @[k]]]
            ELSE f2
      v1 == IF viewOk
            THEN [views EXCEPT ![memory] =
                    [mapped |-> TRUE, path |-> backing, size |-> size,
                     anon |-> IF fileOk THEN <<>> ELSE copied]]
            ELSE views
      \* the object returned, {} for nullptr
      ret == IF giveUp THEN {}                                     \* line 934
             ELSE IF size = 0
             THEN {Win32MemoryMappedFile(file, nullptr, nullptr, 0)}  \* 935
             ELSE IF file_mapping = nullptr THEN {}                \* line 939
             ELSE {Win32MemoryMappedFile(file, file_mapping, memory, size)}
  IN  /\ handles' = h2
      /\ views' = v1
      /\ files' = f3
      /\ aborted' = IF crash THEN "memmove from nullptr in create" ELSE aborted
      /\ objs' = IF crash THEN objs ELSE objs \cup ret
      /\ created' = [created EXCEPT ![name] =
                       IF ret # {} /\ fileOk /\ ~initial.null
                          /\ (size = 0 \/ viewOk)
                       THEN {[size |-> size, data |-> initial.bytes]}
                       ELSE {}]
      /\ lastcall' = [op |-> "create", name |-> name, size |-> size,
                      failed |-> ~fileOk \/ (size # 0 /\ (~mapOk \/ ~viewOk)),
                      ret |-> IF crash THEN {} ELSE ret,
                      before |-> before, released |-> <<>>,
                      \* (history) the argument initial, and whether line 942
                      \* called memmove
                      initial |-> IF initial.null THEN "nullptr" ELSE "buffer",
                      memmove |-> viewOk]

\* a call the destructor makes
OsCall(call, arg) == [call |-> call, arg |-> arg]

\* (mutant) the file is closed first
DestructorCalls_FileFirst(o) ==
  <<OsCall("CloseHandle", o.file_)>>
  \o (IF o.memory_ # nullptr
      THEN <<OsCall("UnmapViewOfFile", o.memory_)>> ELSE <<>>)
  \o (IF o.file_mapping_ # nullptr
      THEN <<OsCall("CloseHandle", o.file_mapping_)>> ELSE <<>>)

\* lines 948-950: the calls of the destructor, in their order
DestructorCalls(o) ==
  (IF o.memory_ # nullptr
   THEN <<OsCall("UnmapViewOfFile", o.memory_)>> ELSE <<>>)
  \o (IF o.file_mapping_ # nullptr
      THEN <<OsCall("CloseHandle", o.file_mapping_)>> ELSE <<>>)
  \o <<OsCall("CloseHandle", o.file_)>>

\* the views and the handle table after the OS has served the calls
RECURSIVE AfterOsCalls(_, _, _)
AfterOsCalls(vs, hs, calls) ==
  IF calls = <<>> THEN [views |-> vs, handles |-> hs]
  ELSE LET c == Head(calls)
       IN  IF c.call = "UnmapViewOfFile"
           THEN AfterOsCalls([vs EXCEPT ![c.arg] = Unmapped], hs, Tail(calls))
           ELSE AfterOsCalls(vs, CloseHandle(hs, c.arg), Tail(calls))

\* lines 947-951: the destructor.  released is the sequence of the calls it
\* has made.
Win32MemoryMappedFile_Destroy(o) ==
  LET calls == DestructorCalls(o)
      after == AfterOsCalls(views, handles, calls)
  IN  /\ views' = after.views
      /\ handles' = after.handles
      /\ objs' = objs \ {o}
      /\ lastcall' = [op |-> "destroy", name |-> "", size |-> o.size_,
                      failed |-> FALSE, ret |-> {o}, before |-> OpenHandles,
                      released |-> calls, initial |-> "none",
                      memmove |-> FALSE]
      /\ UNCHANGED <<files, created, aborted>>

\* the OS steps a call may see refused: none, one of the three, or the file
\* and one of the later two (create goes on after CreateFileA failed)
OsRefusals ==
  {{}, {"file"}, {"mapping"}, {"view"}, {"file", "mapping"}, {"file", "view"}}

Open ==
  /\ Running
  /\ RoomForCall
  /\ \E name \in Paths, mode \in FileMode, fail \in OsRefusals :
       MemoryMappedFile_open(name, mode, "file" \in fail, "mapping" \in fail,
                             "view" \in fail)
  /\ UNCHANGED <<memVars, threadVars, symVars, miscVars>>

Create ==
  /\ Running
  /\ RoomForCall
  /\ \E name \in Paths, size \in 0 .. MaxFileLen, fail \in OsRefusals :
       \E initial \in {Buffer(b) : b \in SeqsOfLen(size)} \cup {NullBuffer} :
         \E u \in (IF initial.null /\ size # 0 /\ "mapping" \notin fail
                                    /\ "view" \notin fail
                   THEN {[fault |-> TRUE, garbage |-> Zeros(size)]} \cup
                        {[fault |-> FALSE, garbage |-> g] :
                           g \in SeqsOfLen(size)}
                   ELSE {[fault |-> FALSE, garbage |-> Zeros(size)]}) :
           MemoryMappedFile_create(name, size, initial, fail, u.fault,
                                   u.garbage)
  /\ UNCHANGED <<memVars, threadVars, symVars, miscVars>>

Destroy ==
  /\ Running
  /\ \E o \in objs : Win32MemoryMappedFile_Destroy(o)
  /\ UNCHANGED <<memVars, threadVars, symVars, miscVars>>

QuietFile ==
  /\ files = [n \in Paths |-> Absent]
  /\ handles = [h \in HandleIds |-> Closed]
  /\ views = [v \in ViewIds |-> Unmapped]
  /\ objs = {}
  /\ created = [n \in Paths |-> {}]
  /\ lastcall = [op |-> "none", name |-> "", size |-> 0, failed |-> FALSE,
                 ret |-> {}, before |-> {}, released |-> <<>>,
                 initial |-> "none", memmove |-> FALSE]

InitFile ==
  /\ files \in [Paths -> {File(b) : b \in FileContents} \cup {Absent}]
  /\ handles = [h \in HandleIds |-> Closed]
  /\ views = [v \in ViewIds |-> Unmapped]
  /\ objs = {}
  /\ created = [n \in Paths |-> {}]
  /\ lastcall = [op |-> "none", name |-> "", size |-> 0, failed |-> FALSE,
                 ret |-> {}, before |-> {}, released |-> <<>>,
                 initial |-> "none", memmove |-> FALSE]

NextFile == Open \/ Create \/ Destroy

-----------------------------------------------------------------------------
(* Win32 thread support: lines 1236-1295 *)

\* line 1236
kNoThread == INVALID_HANDLE_VALUE

\* GetCurrentThreadId() of the three threads of the model: the creator of the
\* Thread object, another thread, and the thread the object spawns
ThreadIdOf == [main |-> 1, other |-> 2, spawned |-> 3]

Joiners == {"main", "other"}

\* thread_id_ is not initialised by PlatformData's constructor (line 1251):
\* before _beginthreadex writes it, it holds any value
UninitializedIds == {0, 1, 2, 3}

\* the handle _beginthreadex returns for the new thread
NewThreadHandle == 1

\* (mutant) Join waits whoever calls it
JoinWaits_Always(thread_id, current) == TRUE

\* line 1292: if (data_->thread_id_ != GetCurrentThreadId())
JoinWaits(thread_id, current) == thread_id # current

\* line 1293: WaitForSingleObject(handle, INFINITE) begins.  A null handle
\* makes it fail at once; INVALID_HANDLE_VALUE is the pseudo handle of the
\* running process, which does not terminate while its threads wait.
WaitBegins(handle) == IF handle = nullptr THEN "returned" ELSE "waiting"

\* lines 1284-1285, first half: _beginthreadex creates the thread, which may
\* run from now on, or fails
Start_beginthreadex ==
  /\ Running
  /\ start.pc = "constructed"
  /\ \/ /\ osthread' = "running"
        /\ start' = [start EXCEPT !.pc = "write_id",
                                   !.result = NewThreadHandle]
     \/ /\ osthread' = osthread
        /\ start' = [start EXCEPT !.pc = "assign", !.result = 0]
  /\ UNCHANGED <<thread_, thread_id_, selfjoin, joiner>>
  /\ UNCHANGED <<memVars, aborted, fileVars, symVars, miscVars>>

\* lines 1284-1285, second half: the identifier is stored through
\* &data_->thread_id_ before _beginthreadex returns
Start_StoreThreadId ==
  /\ Running
  /\ start.pc = "write_id"
  /\ thread_id_' = ThreadIdOf.spawned
  /\ start' = [start EXCEPT !.pc = "assign"]
  /\ UNCHANGED <<thread_, osthread, selfjoin, joiner>>
  /\ UNCHANGED <<memVars, aborted, fileVars, symVars, miscVars>>

\* lines 1286-1287
Start_Return ==
  /\ Running
  /\ start.pc = "assign"
  /\ thread_' = start.result
  /\ start' = [start EXCEPT !.pc = IF start.result # 0 THEN "started"
                                   ELSE "failed"]
  /\ UNCHANGED <<thread_id_, osthread, selfjoin, joiner>>
  /\ UNCHANGED <<memVars, aborted, fileVars, symVars, miscVars>>

\* lines 1291-1295, called on the Thread object by the thread it spawned,
\* from inside its run entry point
Run_JoinSelf ==
  /\ Running
  /\ osthread = "running"
  /\ start.pc # "destroyed"
  /\ selfjoin.pc = "none"
  /\ selfjoin' =
       [pc |-> IF JoinWaits(thread_id_, ThreadIdOf.spawned)
               THEN WaitBegins(thread_) ELSE "returned",
        afterStart |-> start.pc = "started"]
  /\ UNCHANGED <<thread_, thread_id_, start, osthread, joiner>>
  /\ UNCHANGED <<memVars, aborted, fileVars, symVars, miscVars>>

\* lines 1242-1246: NotifyStartedAndRun() completes and ThreadEntry returns
Run_Complete ==
  /\ Running
  /\ osthread = "running"
  /\ selfjoin.pc # "waiting"
  /\ osthread' = "terminated"
  /\ UNCHANGED <<thread_, thread_id_, start, selfjoin, joiner>>
  /\ UNCHANGED <<memVars, aborted, fileVars, symVars, miscVars>>

\* lines 1291-1293: Join() called by the creator (after its Start returned)
\* or by the other thread (at any time)
Join_Call(j) ==
  /\ Running
  /\ joiner[j].pc \in {"idle", "returned"}
  /\ start.pc # "destroyed"
  /\ j = "main" => start.pc \in {"started", "failed"}
  /\ joiner' = [joiner EXCEPT ![j] =
       [pc |-> IF JoinWaits(thread_id_, ThreadIdOf[j])
               THEN WaitBegins(thread_) ELSE "returned",
        handle |-> thread_,
        afterStart |-> start.pc = "started"]]
  /\ UNCHANGED <<thread_, thread_id_, start, osthread, selfjoin>>
  /\ UNCHANGED <<memVars, aborted, fileVars, symVars, miscVars>>

\* line 1293: the wait ends when the thread behind the handle has terminated
Join_Return(j) ==
  /\ Running
  /\ joiner[j].pc = "waiting"
  /\ joiner[j].handle = NewThreadHandle
  /\ osthread = "terminated"
  /\ joiner' = [joiner EXCEPT ![j].pc = "returned"]
  /\ UNCHANGED <<thread_, thread_id_, start, osthread, selfjoin>>
  /\ UNCHANGED <<memVars, aborted, fileVars, symVars, miscVars>>

\* line 1275: the handles the destructor passes to CloseHandle
Thread_DestructorCalls(thread) ==
  IF thread # kNoThread THEN <<thread>> ELSE <<>>

\* lines 1274-1277: the destructor, called by the creator outside Start(),
\* when no thread is inside Join() and the spawned thread is not running.
\* closed is the sequence of the handles it has passed to CloseHandle.
Thread_Destroy ==
  /\ Running
  /\ start.pc \in {"constructed", "started", "failed"}
  /\ osthread # "running"
  /\ \A j \in Joiners : joiner[j].pc # "waiting"
  /\ start' = [start EXCEPT !.pc = "destroyed",
                            !.closed = @ \o Thread_DestructorCalls(thread_)]
  /\ UNCHANGED <<thread_, thread_id_, osthread, selfjoin, joiner>>
  /\ UNCHANGED <<memVars, aborted, fileVars, symVars, miscVars>>

QuietThread ==
  /\ thread_ = kNoThread
  /\ thread_id_ = 0
  /\ start = [pc |-> "constructed", result |-> 0, closed |-> <<>>]
  /\ osthread = "none"
  /\ selfjoin = [pc |-> "none", afterStart |-> FALSE]
  /\ joiner = [j \in Joiners |->
                 [pc |-> "idle", handle |-> kNoThread, afterStart |-> FALSE]]

\* lines 1260-1264: the constructor
InitThread ==
  /\ thread_ = kNoThread
  /\ thread_id_ \in UninitializedIds
  /\ start = [pc |-> "constructed", result |-> 0, closed |-> <<>>]
  /\ osthread = "none"
  /\ selfjoin = [pc |-> "none", afterStart |-> FALSE]
  /\ joiner = [j \in Joiners |->
                 [pc |-> "idle", handle |-> kNoThread, afterStart |-> FALSE]]

NextThread ==
  \/ Start_beginthreadex
  \/ Start_StoreThreadId
  \/ Start_Return
  \/ Run_JoinSelf
  \/ Run_Complete
  \/ \E j \in Joiners : Join_Call(j) \/ Join_Return(j)
  \/ Thread_Destroy

-----------------------------------------------------------------------------
(* Symbol loading for stack traces: lines 961-1189 *)

MaxModules == 2

\* the module snapshots the OS lets the process keep open
MaxSnapshots == 2

\* lines 961-971
DBGHELP_FUNCTION_LIST ==
  {"SymInitialize", "SymGetOptions", "SymSetOptions", "SymGetSearchPath",
   "SymLoadModule64", "StackWalk64", "SymGetSymFromAddr64",
   "SymGetLineFromAddr64", "SymFunctionTableAccess64", "SymGetModuleBase64"}

\* lines 974-977
TLHELP32_FUNCTION_LIST ==
  {"CreateToolhelp32Snapshot", "Module32FirstW", "Module32NextW"}

\* the threads that call GetSharedLibraryAddresses
Callers == {"c1", "c2"}

\* the modules of the process, in the order the snapshot lists them
Modules == [k \in 1 .. MaxModules |-> k]

\* what the libraries of the machine may lack
MissingExports == {{}, {"SymLoadModule64"}, {"Module32NextW"}}

IdleCaller ==
  [pc |-> "idle", loaded |-> FALSE, attempted |-> FALSE, resolved |-> FALSE,
   symwork |-> FALSE, k |-> 0, afterSuccess |-> FALSE,
   afterFailure |-> FALSE, ret |-> <<>>]

\* the call returns value; its locals are dead
Returns(r, value) == [r EXCEPT !.pc = "returned", !.k = 0, !.ret = value]

\* lines 1062-1066 and 1077-1081: GetProcAddress stores a pointer, null for
\* a function the library does not export, in the variable of each name
LOAD_DLL_FUNC(funcs, names) == (funcs \ names) \cup (names \ missing)

\* lines 1086-1093
DLL_FUNC_LOADED(funcs) ==
  (DBGHELP_FUNCTION_LIST \cup TLHELP32_FUNCTION_LIST) \subseteq funcs

\* line 1052: if (dbghelp_loaded) return true;
DbgHelpAlreadyLoaded(loaded) == loaded

\* (mutant) the call goes on to LoadSymbols whatever was resolved
Unavailable_Never(loaded) == FALSE

\* line 1186: if (!LoadDbgHelpAndTlHelp32()) return the empty vector
Unavailable(loaded) == ~loaded

\* line 1114: if (symbols_loaded) return result;
SymbolsAlreadyLoaded(loaded) == loaded

\* lines 1181-1186 and 1050-1052: the call begins and LoadDbgHelpAndTlHelp32
\* reads dbghelp_loaded
GetSharedLibraryAddresses(c) ==
  /\ Running
  /\ caller[c].pc \in {"idle", "returned"}
  /\ caller' = [caller EXCEPT ![c] =
       [IdleCaller EXCEPT
          !.pc = IF DbgHelpAlreadyLoaded(dbghelp_loaded) THEN "ls_check"
                 ELSE "dbg_load",
          !.loaded = dbghelp_loaded,
          !.resolved = DbgHelpAlreadyLoaded(dbghelp_loaded),
          !.afterSuccess = (memo # {}),
          !.afterFailure = resolve_failed]]
  /\ UNCHANGED <<dll_funcs, dbghelp_loaded, symbols_loaded, result,
                 sym_initialized, snapshots, missing, memo, resolve_failed>>
  /\ UNCHANGED <<memVars, aborted, fileVars, threadVars, miscVars>>

\* lines 1054-1096, and line 1186 when the function returns false.  The OS
\* may refuse to load either library.
LoadDbgHelpAndTlHelp32(c) ==
  /\ Running
  /\ caller[c].pc = "dbg_load"
  /\ \E os \in {"no_dbghelp", "no_kernel32", "both"} :
       LET dbg == LOAD_DLL_FUNC(dll_funcs, DBGHELP_FUNCTION_LIST)
           all == LOAD_DLL_FUNC(dbg, TLHELP32_FUNCTION_LIST)
           res == os = "both" /\ DLL_FUNC_LOADED(all)
           r == [caller[c] EXCEPT !.attempted = TRUE, !.resolved = res]
       IN /\ dll_funcs' = CASE os = "no_dbghelp" -> dll_funcs
                             [] os = "no_kernel32" -> dbg
                             [] OTHER -> all
          /\ dbghelp_loaded' = IF os = "both" THEN res ELSE dbghelp_loaded
          /\ resolve_failed' = (resolve_failed \/ ~res)
          /\ caller' = [caller EXCEPT ![c] =
               IF Unavailable(res) THEN Returns(r, <<>>)
               ELSE [r EXCEPT !.pc = "ls_check"]]
  /\ UNCHANGED <<symbols_loaded, result, sym_initialized, snapshots, missing,
                 memo>>
  /\ UNCHANGED <<memVars, aborted, fileVars, threadVars, miscVars>>

\* lines 1187-1188 and 1110-1114
LoadSymbols_Check(c) ==
  /\ Running
  /\ caller[c].pc = "ls_check"
  /\ caller' = [caller EXCEPT ![c] =
       IF SymbolsAlreadyLoaded(symbols_loaded) THEN Returns(@, result)
       ELSE [@ EXCEPT !.pc = "ls_init"]]
  /\ UNCHANGED <<dll_funcs, dbghelp_loaded, symbols_loaded, result,
                 sym_initialized, snapshots, missing, memo, resolve_failed>>
  /\ UNCHANGED <<memVars, aborted, fileVars, threadVars, miscVars>>

\* another thread is inside the loop of LoadSymbols, where it calls
\* SymLoadModule64
InDbgHelp(c) == \E d \in Callers \ {c} : caller[d].pc = "ls_loop"

\* lines 1116-1143: SymInitialize, the options, SymGetSearchPath,
\* CreateToolhelp32Snapshot and Module32FirstW.  Each of the three calls that
\* are tested may fail.  SymInitialize fails for a process whose symbol
\* engine is initialised already; the functions of dbghelp.dll are single
\* threaded, and a SymInitialize that runs while another thread is inside
\* one of them may as well succeed.
LoadSymbols_Initialize(c) ==
  /\ Running
  /\ caller[c].pc = "ls_init"
  /\ \E os \in {"SymInitialize", "SymGetSearchPath",
                 "CreateToolhelp32Snapshot", "ok"} :
       LET r == [caller[c] EXCEPT !.symwork = TRUE]
       IN /\ os # "SymInitialize" => (~sym_initialized \/ InDbgHelp(c))
          /\ os = "ok" => snapshots < MaxSnapshots
          /\ sym_initialized' = (sym_initialized \/ os # "SymInitialize")
          /\ snapshots' = IF os = "ok" THEN snapshots + 1 ELSE snapshots
          /\ caller' = [caller EXCEPT ![c] =
               IF os = "ok"
               THEN [r EXCEPT !.pc = IF MaxModules > 0 THEN "ls_loop"
                                     ELSE "ls_finish",
                              !.k = 1]
               ELSE Returns(r, result)]
  /\ UNCHANGED <<dll_funcs, dbghelp_loaded, symbols_loaded, result, missing,
                 memo, resolve_failed>>
  /\ UNCHANGED <<memVars, aborted, fileVars, threadVars, miscVars>>

\* lines 1144-1173: one turn of the loop.  SymLoadModule64 registers the
\* module, fails with an error the code tolerates, or fails with another.
LoadSymbols_Module(c) ==
  /\ Running
  /\ caller[c].pc = "ls_loop"
  /\ \E os \in {"ok", "ERROR_MOD_NOT_FOUND", "error"} :
       IF os = "error"
       THEN /\ result' = <<>>
            /\ caller' = [caller EXCEPT ![c] = Returns(@, <<>>)]
       ELSE /\ result' = Append(result, Modules[caller[c].k])
            /\ caller' = [caller EXCEPT ![c] =
                 IF @.k < MaxModules THEN [@ EXCEPT !.k = @ + 1]
                 ELSE [@ EXCEPT !.pc = "ls_finish"]]
  /\ UNCHANGED <<dll_funcs, dbghelp_loaded, symbols_loaded, sym_initialized,
                 snapshots, missing, memo, resolve_failed>>
  /\ UNCHANGED <<memVars, aborted, fileVars, threadVars, miscVars>>

\* lines 1174-1177
LoadSymbols_Finish(c) ==
  /\ Running
  /\ caller[c].pc = "ls_finish"
  /\ snapshots' = snapshots - 1
  /\ symbols_loaded' = TRUE
  /\ caller' = [caller EXCEPT ![c] = Returns(@, result)]
  /\ memo' = IF memo = {} THEN {result} ELSE memo
  /\ UNCHANGED <<dll_funcs, dbghelp_loaded, result, sym_initialized, missing,
                 resolve_failed>>
  /\ UNCHANGED <<memVars, aborted, fileVars, threadVars, miscVars>>

QuietSym ==
  /\ dll_funcs = {}
  /\ dbghelp_loaded = FALSE
  /\ symbols_loaded = FALSE
  /\ result = <<>>
  /\ sym_initialized = FALSE
  /\ snapshots = 0
  /\ missing = {}
  /\ caller = [c \in Callers |-> IdleCaller]
  /\ memo = {}
  /\ resolve_failed = FALSE

\* lines 1041-1043, 1050, 1110 and 1112: the initial values of the statics
InitSym ==
  /\ dll_funcs = {}
  /\ dbghelp_loaded = FALSE
  /\ symbols_loaded = FALSE
  /\ result = <<>>
  /\ sym_initialized = FALSE
  /\ snapshots = 0
  /\ missing \in MissingExports
  /\ caller = [c \in Callers |-> IdleCaller]
  /\ memo = {}
  /\ resolve_failed = FALSE

NextSym ==
  \E c \in Callers :
    \/ GetSharedLibraryAddresses(c)
    \/ LoadDbgHelpAndTlHelp32(c)
    \/ LoadSymbols_Check(c)
    \/ LoadSymbols_Initialize(c)
    \/ LoadSymbols_Module(c)
    \/ LoadSymbols_Finish(c)

-----------------------------------------------------------------------------
(* Local time: WindowsTimezoneCache and Win32Time, lines 38-130 and 139-363.
   Times are JavaScript times, milliseconds since 1970 (UTC); a Win32Time
   holds 100 ns units since the epoch of FILETIME.  The model keeps the
   arithmetic of the source and shortens the time line: the FILETIME epoch
   lies EpochSeconds before 1970 and time_t ends at INT_MAX seconds. *)

\* seconds from the FILETIME epoch to 1970
EpochSeconds == 3

\* the largest int, in seconds of POSIX time
INT_MAX == 4

\* lines 170-172
kTimeScaler == 10000

kTimeEpoc == EpochSeconds * 1000 * kTimeScaler

kMsPerMinute == 60000

\* the last second _localtime32_s converts (_MAX__TIME32_T of the C runtime,
\* which lies before the end of the 32-bit range)
MAX__TIME32_T == INT_MAX - 1

\* the WindowsTimezoneCache objects of the process (one per call of
\* OS::CreateTimezoneCache, line 416)
Caches == {"cache1", "cache2"}

\* the JavaScript times passed to the constructor of Win32Time
JsTimes == {-500} \cup {sec * 1000 + 500 : sec \in 0 .. INT_MAX + 1}

\* the names the OS gives as resource identifiers (line 81)
ResourceIds == {"@tzres.dll,-211", "@tzres.dll,-212"}

\* TIME_ZONE_INFORMATION after memset(&tzinfo_, 0, sizeof(tzinfo_)), line 62
ZeroTzinfo ==
  [Bias |-> 0, StandardBias |-> 0, DaylightBias |-> 0, StandardMonth |-> 0,
   StandardDay |-> 0, StandardHour |-> 0, DaylightMonth |-> 0,
   DaylightDay |-> 0, DaylightHour |-> 0, StandardName |-> "",
   DaylightName |-> ""]

\* what the OS and the environment may be configured to: valid tells whether
\* GetTimeZoneInformation succeeds, tz is what it stores, dst is the set of
\* POSIX seconds the C runtime takes for daylight saving time once _tzset()
\* has read the configuration
OsConfigs ==
  { \* GetTimeZoneInformation fails
    [valid |-> FALSE, tz |-> ZeroTzinfo, dst |-> {}],
    \* Pacific time, names given as resource identifiers
    [valid |-> TRUE,
     tz |-> [Bias |-> 480, StandardBias |-> 0, DaylightBias |-> -60,
             StandardMonth |-> 11, StandardDay |-> 1, StandardHour |-> 2,
             DaylightMonth |-> 3, DaylightDay |-> 2, DaylightHour |-> 2,
             StandardName |-> "@tzres.dll,-212",
             DaylightName |-> "@tzres.dll,-211"],
     dst |-> {1, 2}],
    \* Tokyo: no daylight saving time, no transition dates
    [valid |-> TRUE,
     tz |-> [Bias |-> -540, StandardBias |-> 0, DaylightBias |-> 0,
             StandardMonth |-> 0, StandardDay |-> 0, StandardHour |-> 0,
             DaylightMonth |-> 0, DaylightDay |-> 0, DaylightHour |-> 0,
             StandardName |-> "Tokyo Standard Time",
             DaylightName |-> "Tokyo Daylight Time"],
     dst |-> {}] }

\* Lord Howe Island, where daylight saving time moves the clock by half an
\* hour
LordHowe ==
  [valid |-> TRUE,
   tz |-> [Bias |-> -630, StandardBias |-> 0, DaylightBias |-> -30,
           StandardMonth |-> 4, StandardDay |-> 1, StandardHour |-> 2,
           DaylightMonth |-> 10, DaylightDay |-> 1, DaylightHour |-> 2,
           StandardName |-> "Lord Howe Standard Time",
           DaylightName |-> "Lord Howe Daylight Time"],
   dst |-> {1, 2}]

\* (history) a name for each configuration
OsConfigName(os) ==
  IF ~os.valid THEN "invalid" ELSE os.tz.StandardName

\* integer division of C++, which truncates towards zero
Div(a, b) == IF a >= 0 THEN a \div b ELSE -((-a) \div b)

\* lines 207-209: Win32Time(double jstime)
Win32Time(jstime) == jstime * kTimeScaler + kTimeEpoc

\* lines 227-229
ToJSTime(t) == Div(t - kTimeEpoc, kTimeScaler)

\* lines 296-298
RoundedToSecond(t) == Div(Div(t, 1000), kTimeScaler) * 1000 * kTimeScaler

\* lines 120-126 (fourteen entries of the table; the others give "Local")
GuessTimezoneNameFromBias(bias) ==
  CASE -bias = -9 * 60 -> "Alaska"
    [] -bias = -8 * 60 -> "Pacific"
    [] -bias = -7 * 60 -> "Mountain"
    [] -bias = -6 * 60 -> "Central"
    [] -bias = -5 * 60 -> "Eastern"
    [] -bias = -4 * 60 -> "Atlantic"
    [] -bias = 0 -> "GMT"
    [] -bias = 1 * 60 -> "Central Europe"
    [] -bias = 2 * 60 -> "Eastern Europe"
    [] -bias = 3 * 60 -> "Russia"
    [] -bias = 5 * 60 + 30 -> "India"
    [] -bias = 8 * 60 -> "China"
    [] -bias = 9 * 60 -> "Japan"
    [] -bias = 12 * 60 -> "New Zealand"
    [] OTHER -> "Local"

\* lines 81 and 86: the name is empty or a resource identifier
GuessedName(name) == name = "" \/ name \in ResourceIds

\* lines 72-90: the name of the OS or the guess with its suffix, as the
\* sequence of the parts of the string
TzName(name, bias, suffix) ==
  IF GuessedName(name) THEN <<GuessTimezoneNameFromBias(bias), suffix>>
  ELSE <<name>>

\* (mutant) no fall back: the zeroed structure is kept
ReadTzinfo_NoFallBack(os) == os.tz

\* lines 61-73: GetTimeZoneInformation on the zeroed structure, or the fall
\* back to CET
ReadTzinfo(os) ==
  IF os.valid THEN os.tz
  ELSE [ZeroTzinfo EXCEPT !.Bias = -60, !.StandardMonth = 10,
                          !.StandardDay = 5, !.StandardHour = 3,
                          !.StandardBias = 0, !.DaylightMonth = 3,
                          !.DaylightDay = 5, !.DaylightHour = 2,
                          !.DaylightBias = -60]

\* line 40: a cache as constructed; the other members are not initialised
\* and not read before InitializeIfNeeded has written them
\* (history) no call of LocalOffset has been made with the cache
NotAsked == [read |-> "none", jstime |-> 0, offset |-> 0]

\* (history) read is the configuration InitializeIfNeeded read last, asked
\* the last call of LocalOffset with the cache: the configuration the cache
\* then held, the time and the result
NewCache ==
  [initialized_ |-> FALSE, tzinfo_ |-> ZeroTzinfo, std_tz_name_ |-> <<>>,
   dst_tz_name_ |-> <<>>, read |-> "none", asked |-> NotAsked]

\* (mutant) the flag is not looked at
NeedsInitialization_Always(cache) == TRUE

\* line 56: if (initialized_) return;
NeedsInitialization(cache) == ~cache.initialized_

\* lines 54-99: the cache after InitializeIfNeeded()
InitializeIfNeeded(cache, os) ==
  IF ~NeedsInitialization(cache) THEN cache
  ELSE LET tz == ReadTzinfo(os)
       IN  [initialized_ |-> TRUE, tzinfo_ |-> tz,
            std_tz_name_ |-> TzName(tz.StandardName, tz.Bias, "Standard Time"),
            dst_tz_name_ |-> TzName(tz.DaylightName, tz.Bias, "Daylight Time"),
            read |-> OsConfigName(os), asked |-> cache.asked]

\* line 60: the state of the C runtime after InitializeIfNeeded(); _tzset()
\* reads the configuration into the state shared by the whole process
TzsetIfNeeded(cache, os, crt) ==
  IF ~NeedsInitialization(cache) THEN crt ELSE [dst |-> os.dst]

\* (mutant) the conversion to local time never fails
localtime_s_NeverFails(crt, narrow, posix_time) ==
  [err |-> FALSE, tm_isdst |-> IF posix_time \in crt.dst THEN 1 ELSE 0]

\* line 313: localtime_s(&posix_local_time_struct, &posix_time).  With a
\* 32-bit time_t it fails for the seconds after _MAX__TIME32_T.
localtime_s(crt, narrow, posix_time) ==
  IF narrow /\ posix_time > MAX__TIME32_T
  THEN [err |-> TRUE, tm_isdst |-> 0]
  ELSE [err |-> FALSE, tm_isdst |-> IF posix_time \in crt.dst THEN 1 ELSE 0]

\* lines 293-323, after InitializeIfNeeded(): t is the time of the Win32Time
LocalOffset(tzinfo, crt, narrow, t) ==
  LET unchecked_posix_time == Div(ToJSTime(RoundedToSecond(t)), 1000)
      tm == localtime_s(crt, narrow, unchecked_posix_time)
  IN  IF unchecked_posix_time > INT_MAX \/ unchecked_posix_time < 0 THEN 0
      ELSE IF tm.err THEN 0
      ELSE IF tm.tm_isdst > 0
      THEN (tzinfo.Bias + tzinfo.DaylightBias) * (-kMsPerMinute)
      ELSE IF tm.tm_isdst = 0
      THEN (tzinfo.Bias + tzinfo.StandardBias) * (-kMsPerMinute)
      ELSE tzinfo.Bias * (-kMsPerMinute)

\* (mutant) the transition dates are not looked at
InDST_OffsetOnly(tzinfo, offset) ==
  offset = -(tzinfo.Bias + tzinfo.DaylightBias) * kMsPerMinute

\* lines 327-348, after InitializeIfNeeded(): offset is the result of
\* LocalOffset(cache)
InDST(tzinfo, offset) ==
  IF tzinfo.StandardMonth # 0 \/ tzinfo.DaylightMonth # 0
  THEN offset = -(tzinfo.Bias + tzinfo.DaylightBias) * kMsPerMinute
  ELSE FALSE

\* lines 352-354
DaylightSavingsOffset(in_dst) == IF in_dst THEN 60 * kMsPerMinute ELSE 0

\* lines 359-363
LocalTimezone(cache, in_dst) ==
  IF in_dst THEN cache.dst_tz_name_ ELSE cache.std_tz_name_

\* lines 294, 328 and 335: the calls of InitializeIfNeeded() that a call of
\* the function makes; InDST makes one and, when the rule set has a
\* transition date, LocalOffset a second
InitializeCalls(fn, tzinfo) ==
  LET in_dst == IF tzinfo.StandardMonth # 0 \/ tzinfo.DaylightMonth # 0
                THEN 2 ELSE 1
  IN  IF fn = "LocalOffset" THEN 1
      ELSE IF fn = "LocalTimeOffset" THEN 1 + in_dst
      ELSE in_dst

\* (history) the number of times that many calls of InitializeIfNeeded() on
\* the cache read the configuration of the OS (lines 59-62)
RECURSIVE OsReads(_, _, _)
OsReads(cache, os, calls) ==
  IF calls = 0 THEN 0
  ELSE (IF NeedsInitialization(cache) THEN 1 ELSE 0)
         + OsReads(InitializeIfNeeded(cache, os), os, calls - 1)

\* no query has been made
NoQuery ==
  [fn |-> "none", cache |-> "none", jstime |-> 0, tzinfo |-> ZeroTzinfo,
   isdst |-> FALSE, offset |-> 0, in_dst |-> FALSE, dst_offset |-> 0,
   name |-> <<>>, std_name |-> <<>>, dst_name |-> <<>>, again |-> "first",
   os_reads |-> 0, local_time_offset |-> 0]

\* the member functions of Win32Time that take the cache
TzFunctions == {"LocalOffset", "DaylightSavingsOffset", "LocalTimezone"}

\* Win32Time(jstime).LocalOffset(cache), .DaylightSavingsOffset(cache) or
\* .LocalTimezone(cache): lines 293-323, 352-354, 359-363 (and 393-395,
\* 411-414).  Each of them initialises the cache if needed.  offset, in_dst,
\* dst_offset and name are what the three functions and InDST return for this
\* time; fn tells which of them was called.  (history) again tells whether
\* the last call of LocalOffset with this cache was made at the same time and
\* with the same rule set in the cache, and whether it returned the same.
Query(c, fn, jstime) ==
  LET cache == InitializeIfNeeded(tzcache[c], os_config)
      crt == TzsetIfNeeded(tzcache[c], os_config, crt_tz)
      offset == LocalOffset(cache.tzinfo_, crt, time32, Win32Time(jstime))
      in_dst == InDST(cache.tzinfo_, offset)
      repeat == /\ fn = "LocalOffset"
                /\ cache.asked.read = cache.read
                /\ cache.asked.jstime = jstime
  IN  /\ tzcache' = [tzcache EXCEPT ![c] =
           IF fn = "LocalOffset"
           THEN [cache EXCEPT !.asked = [read |-> cache.read,
                                         jstime |-> jstime,
                                         offset |-> offset]]
           ELSE cache]
      /\ crt_tz' = crt
      /\ tzlast' =
           [fn |-> fn, cache |-> c, jstime |-> jstime,
            tzinfo |-> cache.tzinfo_,
            isdst |-> (jstime \div 1000) \in crt.dst,
            offset |-> offset, in_dst |-> in_dst,
            dst_offset |-> DaylightSavingsOffset(in_dst),
            name |-> LocalTimezone(cache, in_dst),
            std_name |-> cache.std_tz_name_,
            dst_name |-> cache.dst_tz_name_,
            again |-> IF ~repeat THEN "first"
                      ELSE IF cache.asked.offset = offset THEN "same"
                      ELSE "differs",
            os_reads |-> OsReads(tzcache[c], os_config,
                                 InitializeCalls(fn, cache.tzinfo_)),
            \* lines 405-406
            local_time_offset |-> offset - DaylightSavingsOffset(in_dst)]
      /\ UNCHANGED <<os_config, time32, tz_thr>>

Win32Time_LocalOffset(c) ==
  /\ \E jstime \in JsTimes : Query(c, "LocalOffset", jstime)
  /\ UNCHANGED besidesTz

Win32Time_DaylightSavingsOffset(c) ==
  /\ \E jstime \in JsTimes : Query(c, "DaylightSavingsOffset", jstime)
  /\ UNCHANGED besidesTz

Win32Time_LocalTimezone(c) ==
  /\ \E jstime \in JsTimes : Query(c, "LocalTimezone", jstime)
  /\ UNCHANGED besidesTz

\* lines 399-407: WindowsTimezoneCache::LocalTimeOffset(time_ms, is_utc),
\* which takes the current time (line 403), here any of the times
WindowsTimezoneCache_LocalTimeOffset(c) ==
  /\ \E now \in JsTimes : Query(c, "LocalTimeOffset", now)
  /\ UNCHANGED besidesTz

\* line 44: Clear(TimeZoneDetection)
Clear(c) ==
  /\ tzcache' = [tzcache EXCEPT ![c].initialized_ = FALSE]
  /\ UNCHANGED <<os_config, crt_tz, time32, tzlast, tz_thr>>
  /\ UNCHANGED besidesTz

\* the user or an administrator changes the time zone of the system
ChangeOsConfig ==
  /\ \E os \in OsConfigs \ {os_config} : os_config' = os
  /\ UNCHANGED <<crt_tz, time32, tzcache, tzlast, tz_thr>>
  /\ UNCHANGED besidesTz

(* Win32Time::LocalOffset(cache) step by step, called by the threads of the
   process on one cache, which has no lock: each read and each write of a
   member of the cache is a step of its own (lines 54-99 and 293-323). *)

TzIdle ==
  [pc |-> "idle", jstime |-> 0, returned |-> FALSE, ret |-> 0,
   seen |-> ZeroTzinfo]

\* line 293: the call
LocalOffset_Call(t) ==
  /\ tz_thr[t].pc = "idle"
  /\ \E jstime \in JsTimes :
       tz_thr' = [tz_thr EXCEPT ![t] =
                    [TzIdle EXCEPT !.pc = "check", !.jstime = jstime]]
  /\ UNCHANGED <<os_config, crt_tz, time32, tzcache, tzlast>>
  /\ UNCHANGED besidesTz

\* lines 294 and 56: if (initialized_) return;
InitializeIfNeeded_Check(t) ==
  /\ tz_thr[t].pc = "check"
  /\ tz_thr' = [tz_thr EXCEPT ![t].pc =
       IF NeedsInitialization(tzcache["cache1"]) THEN "memset" ELSE "read"]
  /\ UNCHANGED <<os_config, crt_tz, time32, tzcache, tzlast>>
  /\ UNCHANGED besidesTz

\* lines 59-61: _tzset() and memset(&tzinfo_, 0, sizeof(tzinfo_))
InitializeIfNeeded_Memset(t) ==
  /\ tz_thr[t].pc = "memset"
  /\ crt_tz' = [dst |-> os_config.dst]
  /\ tzcache' = [tzcache EXCEPT !["cache1"].tzinfo_ = ZeroTzinfo]
  /\ tz_thr' = [tz_thr EXCEPT ![t].pc = "fill"]
  /\ UNCHANGED <<os_config, time32, tzlast>>
  /\ UNCHANGED besidesTz

\* lines 62-96: GetTimeZoneInformation or the fall back, and the names
InitializeIfNeeded_Fill(t) ==
  /\ tz_thr[t].pc = "fill"
  /\ LET tz == ReadTzinfo(os_config)
     IN  tzcache' = [tzcache EXCEPT !["cache1"] =
           [@ EXCEPT !.tzinfo_ = tz,
                     !.std_tz_name_ =
                        TzName(tz.StandardName, tz.Bias, "Standard Time"),
                     !.dst_tz_name_ =
                        TzName(tz.DaylightName, tz.Bias, "Daylight Time"),
                     !.read = OsConfigName(os_config)]]
  /\ tz_thr' = [tz_thr EXCEPT ![t].pc = "flag"]
  /\ UNCHANGED <<os_config, crt_tz, time32, tzlast>>
  /\ UNCHANGED besidesTz

\* line 98: initialized_ = true
InitializeIfNeeded_SetFlag(t) ==
  /\ tz_thr[t].pc = "flag"
  /\ tzcache' = [tzcache EXCEPT !["cache1"].initialized_ = TRUE]
  /\ tz_thr' = [tz_thr EXCEPT ![t].pc = "read"]
  /\ UNCHANGED <<os_config, crt_tz, time32, tzlast>>
  /\ UNCHANGED besidesTz

\* lines 296-322: the offset, made of the members of the cache as they are
\* when the function reads them
LocalOffset_Return(t) ==
  /\ tz_thr[t].pc = "read"
  /\ tz_thr' = [tz_thr EXCEPT ![t] =
       [@ EXCEPT !.pc = "idle", !.returned = TRUE,
                 !.seen = tzcache["cache1"].tzinfo_,
                 !.ret = LocalOffset(tzcache["cache1"].tzinfo_, crt_tz, time32,
                                     Win32Time(tz_thr[t].jstime))]]
  /\ UNCHANGED <<os_config, crt_tz, time32, tzcache, tzlast>>
  /\ UNCHANGED besidesTz

\* line 44, called by a thread that is not inside LocalOffset
Clear_Call(t) ==
  /\ tz_thr[t].pc = "idle"
  /\ tzcache["cache1"].initialized_
  /\ tzcache' = [tzcache EXCEPT !["cache1"].initialized_ = FALSE]
  /\ tz_thr' = [tz_thr EXCEPT ![t] = TzIdle]
  /\ UNCHANGED <<os_config, crt_tz, time32, tzlast>>
  /\ UNCHANGED besidesTz

\* a system of one of the configurations or in the time zone of Lord Howe
InitTzOffset ==
  /\ tz_thr = [t \in Threads |-> TzIdle]
  /\ os_config \in OsConfigs \cup {LordHowe}
  /\ crt_tz = [dst |-> {}]
  /\ time32 \in BOOLEAN
  /\ tzcache = [c \in Caches |-> NewCache]
  /\ tzlast = NoQuery

\* one cache is asked for the offset without daylight saving, and cleared
NextTzOffset ==
  \/ WindowsTimezoneCache_LocalTimeOffset("cache1")
  \/ Clear("cache1")

\* the threads of the process query and clear the cache of their isolate
NextTzThreads ==
  \E t \in Threads :
    \/ LocalOffset_Call(t)
    \/ InitializeIfNeeded_Check(t)
    \/ InitializeIfNeeded_Memset(t)
    \/ InitializeIfNeeded_Fill(t)
    \/ InitializeIfNeeded_SetFlag(t)
    \/ LocalOffset_Return(t)
    \/ Clear_Call(t)

QuietTz ==
  /\ tz_thr = [t \in Threads |-> TzIdle]
  /\ os_config = [valid |-> FALSE, tz |-> ZeroTzinfo, dst |-> {}]
  /\ crt_tz = [dst |-> {}]
  /\ time32 = FALSE
  /\ tzcache = [c \in Caches |-> NewCache]
  /\ tzlast = NoQuery

\* line 40: the caches as constructed, in a system of some configuration and
\* a build of either width of time_t
InitTz ==
  /\ tz_thr = [t \in Threads |-> TzIdle]
  /\ os_config \in OsConfigs
  /\ crt_tz = [dst |-> {}]
  /\ time32 \in BOOLEAN
  /\ tzcache = [c \in Caches |-> NewCache]
  /\ tzlast = NoQuery

\* the caches of two isolates are asked for the local offset and cleared
\* while the configuration of the OS changes
NextTz ==
  \/ \E c \in Caches :
       \/ Win32Time_LocalOffset(c)
       \/ Clear(c)
  \/ ChangeOsConfig

\* one cache is asked by the three functions
NextTzOne ==
  \/ Win32Time_LocalOffset("cache1")
  \/ Win32Time_DaylightSavingsOffset("cache1")
  \/ Win32Time_LocalTimezone("cache1")
  \/ Clear("cache1")
  \/ ChangeOsConfig

-----------------------------------------------------------------------------
(* Thread-local storage: lines 1298-1321 *)

\* the process has MaxTlsIndexes TLS indexes
MaxTlsIndexes == 2

TlsIndexes == 0 .. MaxTlsIndexes - 1

\* what TlsAlloc returns when no index is free, as a LocalStorageKey
TLS_OUT_OF_INDEXES == -1

\* the values the threads store: two pointers
TlsValues == {1, 2}

\* (history) the thread has not set the key
NotSet == -1

\* TlsAlloc(): the lowest free index, or TLS_OUT_OF_INDEXES
TlsAlloc(alloc) ==
  IF TlsIndexes \ alloc = {} THEN TLS_OUT_OF_INDEXES
  ELSE CHOOSE i \in TlsIndexes \ alloc : \A j \in TlsIndexes \ alloc : i <= j

\* TlsGetValue(key) of a thread: its slot, or 0 when the index is invalid
TlsGetValue(alloc, slots, key) ==
  IF key \in alloc THEN slots[key] ELSE nullptr

\* TlsSetValue(key, v) of thread t has succeeded
SlotsAfterSet(value, t, key, v) == [value EXCEPT ![t][key] = v]

\* the slots of an index are zero for every thread when TlsAlloc returns it;
\* the OS clears them when the index is allocated and when it is freed
ZeroedSlots(value, index) ==
  [u \in Threads |->
     [i \in TlsIndexes |-> IF i = index THEN nullptr ELSE value[u][i]]]

\* lines 1298-1302
CreateThreadLocalKey(t) ==
  /\ Running
  /\ LET tls_result == TlsAlloc(tls_alloc)
     IN  IF DCHECK(tls_result # TLS_OUT_OF_INDEXES)
         THEN /\ tls_result \notin tls_keys
              /\ tls_keys' = tls_keys \cup {tls_result}
              /\ tls_alloc' = tls_alloc \cup (TlsIndexes \cap {tls_result})
              /\ tls_value' = ZeroedSlots(tls_value, tls_result)
              /\ tls_set' = [u \in Threads |->
                   [tls_set[u] EXCEPT ![tls_result] = NotSet]]
              /\ aborted' = aborted
         ELSE /\ aborted' = "DCHECK in CreateThreadLocalKey"
              /\ UNCHANGED <<tls_keys, tls_alloc, tls_value, tls_set>>
  /\ UNCHANGED <<tls_last, besidesTls>>

\* lines 1305-1309
DeleteThreadLocalKey(t) ==
  /\ Running
  /\ \E key \in tls_keys :
       LET tls_result == key \in tls_alloc
       IN  IF DCHECK(tls_result)
           THEN /\ tls_keys' = tls_keys \ {key}
                /\ tls_alloc' = tls_alloc \ {key}
                /\ tls_value' = ZeroedSlots(tls_value, key)
                /\ tls_set' = [u \in Threads |->
                     [tls_set[u] EXCEPT ![key] = NotSet]]
                /\ aborted' = aborted
           ELSE /\ aborted' = "DCHECK in DeleteThreadLocalKey"
                /\ UNCHANGED <<tls_keys, tls_alloc, tls_value, tls_set>>
  /\ UNCHANGED <<tls_last, besidesTls>>

\* lines 1312-1314
GetThreadLocal(t) ==
  /\ Running
  /\ \E key \in tls_keys :
       tls_last' = [thread |-> t, key |-> key,
                    ret |-> TlsGetValue(tls_alloc, tls_value[t], key),
                    set |-> tls_set[t][key]]
  /\ UNCHANGED <<tls_alloc, tls_value, tls_keys, tls_set, aborted, besidesTls>>

\* lines 1317-1321
SetThreadLocal(t) ==
  /\ Running
  /\ \E key \in tls_keys, v \in TlsValues :
       LET tls_result == key \in tls_alloc
       IN  IF DCHECK(tls_result)
           THEN /\ tls_value' = IF tls_result
                                THEN SlotsAfterSet(tls_value, t, key, v)
                                ELSE tls_value
                /\ tls_set' = [tls_set EXCEPT ![t][key] = v]
                /\ aborted' = aborted
           ELSE /\ aborted' = "DCHECK in SetThreadLocal"
                /\ UNCHANGED <<tls_value, tls_set>>
  /\ UNCHANGED <<tls_alloc, tls_keys, tls_last, besidesTls>>

\* no call of GetThreadLocal has been made
NoGet == [thread |-> "none", key |-> 0, ret |-> nullptr, set |-> NotSet]

QuietTls ==
  /\ tls_alloc = {}
  /\ tls_value = [u \in Threads |-> [i \in TlsIndexes |-> nullptr]]
  /\ tls_keys = {}
  /\ tls_set = [u \in Threads |->
                  [k \in TlsIndexes \cup {TLS_OUT_OF_INDEXES} |-> NotSet]]
  /\ tls_last = NoGet

\* the process at its start: other users of TLS (the C runtime, libraries)
\* hold some of the indexes already
InitTls ==
  /\ tls_alloc \in SUBSET TlsIndexes
  /\ tls_value = [u \in Threads |-> [i \in TlsIndexes |-> nullptr]]
  /\ tls_keys = {}
  /\ tls_set = [u \in Threads |->
                  [k \in TlsIndexes \cup {TLS_OUT_OF_INDEXES} |-> NotSet]]
  /\ tls_last = NoGet

NextTls ==
  \E t \in Threads :
    \/ CreateThreadLocalKey(t)
    \/ DeleteThreadLocalKey(t)
    \/ GetThreadLocal(t)
    \/ SetThreadLocal(t)

-----------------------------------------------------------------------------
(* OS::Initialize and OS::Abort: lines 34, 618-620 and 845-863 *)

\* stdout and stderr buffer at most MaxBuffered bytes of the model
MaxBuffered == 2

Streams == {"stdout", "stderr"}

\* OS::Abort has not been called
NotCalled == [pc |-> "none", log |-> <<>>]

\* lines 618-620: OS::Initialize(hard_abort, gc_fake_mmap), at startup
Initialize ==
  /\ Running
  /\ abort_call = NotCalled
  /\ \E hard_abort \in BOOLEAN : g_hard_abort' = hard_abort
  /\ UNCHANGED <<proc_env, stdio, abort_call, aborted, besidesAbort>>

\* some thread writes to a stream, which buffers the byte
Write ==
  /\ Running
  /\ \E f \in Streams :
       /\ stdio[f] < MaxBuffered
       /\ stdio' = [stdio EXCEPT ![f] = @ + 1]
  /\ UNCHANGED <<g_hard_abort, proc_env, abort_call, aborted, besidesAbort>>

\* the call has made the step named: it is logged with what the streams
\* buffer after it
Logged(step, buffered) ==
  Append(abort_call.log, [step |-> step, buffered |-> buffered])

\* lines 845-849: entry; DebugBreak() when a debugger is present, which lets
\* the thread go on
Abort_Enter ==
  /\ Running
  /\ abort_call.pc = "none"
  /\ abort_call' = [pc |-> "fflush(stdout)",
                    log |-> IF proc_env.debugger THEN Logged("DebugBreak", stdio)
                            ELSE abort_call.log]
  /\ UNCHANGED <<g_hard_abort, proc_env, stdio, aborted, besidesAbort>>

\* line 852
Abort_FlushStdout ==
  /\ Running
  /\ abort_call.pc = "fflush(stdout)"
  /\ stdio' = [stdio EXCEPT !["stdout"] = 0]
  /\ abort_call' = [pc |-> "fflush(stderr)",
                    log |-> Logged("fflush(stdout)", stdio')]
  /\ UNCHANGED <<g_hard_abort, proc_env, aborted, besidesAbort>>

\* line 853
Abort_FlushStderr ==
  /\ Running
  /\ abort_call.pc = "fflush(stderr)"
  /\ stdio' = [stdio EXCEPT !["stderr"] = 0]
  /\ abort_call' = [pc |-> "terminate", log |-> Logged("fflush(stderr)", stdio')]
  /\ UNCHANGED <<g_hard_abort, proc_env, aborted, besidesAbort>>

\* (mutant) the flag is not looked at
HardAbort_Never(flag) == FALSE

\* line 855: if (g_hard_abort)
HardAbort(flag) == flag

\* lines 855-859: V8_IMMEDIATE_CRASH(), which faults, or raise(SIGABRT),
\* which ends the process unless a handler is installed and returns
Abort_Terminate ==
  /\ Running
  /\ abort_call.pc = "terminate"
  /\ IF HardAbort(g_hard_abort)
     THEN /\ abort_call' = [pc |-> "dead",
                            log |-> Logged("V8_IMMEDIATE_CRASH", stdio)]
          /\ aborted' = "V8_IMMEDIATE_CRASH"
     ELSE /\ abort_call' = [pc |-> IF proc_env.handler THEN "abort()"
                                   ELSE "dead",
                            log |-> Logged("raise(SIGABRT)", stdio)]
          /\ aborted' = IF proc_env.handler THEN aborted ELSE "SIGABRT"
  /\ UNCHANGED <<g_hard_abort, proc_env, stdio, besidesAbort>>

\* line 862: abort(), reached when the handler of SIGABRT has returned
Abort_abort ==
  /\ Running
  /\ abort_call.pc = "abort()"
  /\ abort_call' = [pc |-> "dead", log |-> Logged("abort()", stdio)]
  /\ aborted' = "abort()"
  /\ UNCHANGED <<g_hard_abort, proc_env, stdio, besidesAbort>>

QuietAbort ==
  /\ g_hard_abort = FALSE
  /\ proc_env = [debugger |-> FALSE, handler |-> FALSE]
  /\ stdio = [f \in Streams |-> 0]
  /\ abort_call = NotCalled

\* line 34: the flag as defined; the process runs with or without a
\* debugger, with or without a handler of SIGABRT
InitAbort ==
  /\ g_hard_abort = FALSE
  /\ proc_env \in [debugger : BOOLEAN, handler : BOOLEAN]
  /\ stdio = [f \in Streams |-> 0]
  /\ abort_call = NotCalled

NextAbort ==
  \/ Initialize
  \/ Write
  \/ Abort_Enter
  \/ Abort_FlushStdout
  \/ Abort_FlushStderr
  \/ Abort_Terminate
  \/ Abort_abort

-----------------------------------------------------------------------------
(* The random source of OS::Allocate: lines 614-616 and 646-676.  The class
   RandomNumberGenerator (src/base/utils/random-number-generator.h) is a
   deterministic generator that its constructor seeds from entropy, SetSeed
   from the seed; the model gives it a state of AddressBits bits.  Two runs of
   the program are modelled side by side. *)

\* the width of uintptr_t
AddressBits == 4

\* line 672: kPageSizeBits
kPageSizeBits == 1

\* a run calls SetRandomMmapSeed at most MaxSeedCalls times and draws at most
\* MaxDraws addresses after a call
MaxSeedCalls == 2

MaxDraws == 2

RECURSIVE Pow2(_)
Pow2(n) == IF n = 0 THEN 1 ELSE 2 * Pow2(n - 1)

\* the values of uintptr_t
Word == 0 .. Pow2(AddressBits) - 1

\* lines 661-665: the window of the addresses.  As in the source, the bit of
\* kAllocationRandomAddressMin is one of the bits of
\* kAllocationRandomAddressMax, which has neither the low bits nor the top
\* bit of the word.
kAllocationRandomAddressMin == Pow2(AddressBits - 2)

kAllocationRandomAddressMax == Pow2(AddressBits - 1) - Pow2(kPageSizeBits)

\* a & b on uintptr_t
RECURSIVE BitAnd(_, _)
BitAnd(a, b) ==
  IF a = 0 \/ b = 0 THEN 0
  ELSE 2 * BitAnd(a \div 2, b \div 2) + (a % 2) * (b % 2)

Runs == {"run1", "run2"}

\* the seeds passed to SetRandomMmapSeed (0 is what the flag --random-seed
\* holds when it is not given)
Seeds == {0, 1, 2}

\* RandomNumberGenerator::SetSeed(seed): the state the seed gives
SetSeed(seed) == (3 * seed + 1) % Pow2(AddressBits)

\* RandomNumberGenerator::NextBytes: the next state, whose bits are the bytes
NextBytes(state) == (5 * state + 1) % Pow2(AddressBits)

\* lines 614-615: the generator is made at its first use and seeded from
\* entropy; the states it may then have
Constructed(g) ==
  IF g.constructed THEN {g}
  ELSE {[constructed |-> TRUE, state |-> e] : e \in Word}

\* (mutant) every seed is used
Reseeds_Always(seed) == TRUE

\* line 647: if (seed)
Reseeds(seed) == seed # 0

\* lines 646-651
SetRandomMmapSeed(run) ==
  /\ Len(rng_hist[run].calls) < MaxSeedCalls
  /\ \E seed \in Seeds :
       IF Reseeds(seed)
       THEN /\ rng' = [rng EXCEPT ![run] =
                 [constructed |-> TRUE, state |-> SetSeed(seed)]]
            /\ rng_hist' = [rng_hist EXCEPT ![run] =
                 [calls |-> Append(@.calls, seed), reseeds |-> @.reseeds + 1,
                  since_call |-> <<>>, since_reseed |-> <<>>]]
       ELSE /\ rng' = rng
            /\ rng_hist' = [rng_hist EXCEPT ![run] =
                 [calls |-> Append(@.calls, seed), reseeds |-> @.reseeds,
                  since_call |-> <<>>, since_reseed |-> @.since_reseed]]
  /\ UNCHANGED <<rng_mutex, rng_thr, besidesRng>>

\* lines 672-674
MmapAddr(raw) ==
  LET shifted == (raw * Pow2(kPageSizeBits)) % Pow2(AddressBits)
      moved == (shifted + kAllocationRandomAddressMin) % Pow2(AddressBits)
  IN  BitAnd(moved, kAllocationRandomAddressMax)

\* lines 654-676
GetRandomMmapAddr(run) ==
  /\ Len(rng_hist[run].since_call) < MaxDraws
  /\ Len(rng_hist[run].since_reseed) < MaxDraws
  /\ \E g \in Constructed(rng[run]) :
       LET next == NextBytes(g.state)
       IN  /\ rng' = [rng EXCEPT ![run] = [g EXCEPT !.state = next]]
           /\ rng_hist' = [rng_hist EXCEPT ![run] =
                [@ EXCEPT !.since_call = Append(@, MmapAddr(next)),
                          !.since_reseed = Append(@, MmapAddr(next))]]
  /\ UNCHANGED <<rng_mutex, rng_thr, besidesRng>>

(* The two functions step by step, called by the threads of one process
   (the first run): the MutexGuard is taken, the generator is used, the guard
   goes out of scope. *)

NoCall == [pc |-> "idle", fn |-> "none", seed |-> 0, ret |-> 0]

\* (mutant) the guard does not wait
Unlocked_Always(mutex) == TRUE

\* lines 648 and 669: MutexGuard guard(rng_mutex.Pointer()) waits until the
\* mutex is free
Unlocked(mutex) == mutex = "free"

\* lines 646-647: a call with seed 0 returns at once
SetRandomMmapSeed_Call(t) ==
  /\ rng_thr[t].pc = "idle"
  /\ \E seed \in Seeds :
       rng_thr' = [rng_thr EXCEPT ![t] =
         [pc |-> IF Reseeds(seed) THEN "lock" ELSE "idle",
          fn |-> "SetRandomMmapSeed", seed |-> seed, ret |-> 0]]
  /\ UNCHANGED <<rng, rng_hist, rng_mutex, besidesRng>>

\* lines 654-668
GetRandomMmapAddr_Call(t) ==
  /\ rng_thr[t].pc = "idle"
  /\ rng_thr' = [rng_thr EXCEPT ![t] =
       [pc |-> "lock", fn |-> "GetRandomMmapAddr", seed |-> 0, ret |-> 0]]
  /\ UNCHANGED <<rng, rng_hist, rng_mutex, besidesRng>>

\* lines 648 and 669: the constructor of the guard
MutexGuard_Lock(t) ==
  /\ rng_thr[t].pc = "lock"
  /\ Unlocked(rng_mutex)
  /\ rng_mutex' = t
  /\ rng_thr' = [rng_thr EXCEPT ![t].pc = "inside"]
  /\ UNCHANGED <<rng, rng_hist, besidesRng>>

\* lines 649 and 670: GetPlatformRandomNumberGenerator() and the call of
\* SetSeed or NextBytes on it
Generator_Use(t) ==
  /\ rng_thr[t].pc = "inside"
  /\ \E g \in Constructed(rng["run1"]) :
       LET next == IF rng_thr[t].fn = "SetRandomMmapSeed"
                   THEN SetSeed(rng_thr[t].seed)
                   ELSE NextBytes(g.state)
       IN  /\ rng' = [rng EXCEPT !["run1"] = [g EXCEPT !.state = next]]
           /\ rng_thr' = [rng_thr EXCEPT ![t] =
                [@ EXCEPT !.pc = "done",
                          !.ret = IF rng_thr[t].fn = "GetRandomMmapAddr"
                                  THEN next ELSE 0]]
  /\ UNCHANGED <<rng_hist, rng_mutex, besidesRng>>

\* lines 650 and 671-675: the guard goes out of scope; GetRandomMmapAddr
\* makes the address of the bytes and returns it
MutexGuard_Unlock(t) ==
  /\ rng_thr[t].pc = "done"
  /\ rng_mutex' = IF rng_mutex = t THEN "free" ELSE rng_mutex
  /\ rng_thr' = [rng_thr EXCEPT ![t] =
       [@ EXCEPT !.pc = "idle",
                 !.ret = IF rng_thr[t].fn = "GetRandomMmapAddr"
                         THEN MmapAddr(@) ELSE 0]]
  /\ UNCHANGED <<rng, rng_hist, besidesRng>>

NoGenerator == [constructed |-> FALSE, state |-> 0]

NoRngCall ==
  [calls |-> <<>>, reseeds |-> 0, since_call |-> <<>>, since_reseed |-> <<>>]

QuietRng ==
  /\ rng = [r \in Runs |-> NoGenerator]
  /\ rng_hist = [r \in Runs |-> NoRngCall]
  /\ rng_mutex = "free"
  /\ rng_thr = [t \in Threads |-> NoCall]

\* lines 614-615: no generator exists before its first use
InitRng ==
  /\ rng = [r \in Runs |-> NoGenerator]
  /\ rng_hist = [r \in Runs |-> NoRngCall]
  /\ rng_mutex = "free"
  /\ rng_thr = [t \in Threads |-> NoCall]

NextRng ==
  \E run \in Runs :
    \/ SetRandomMmapSeed(run)
    \/ GetRandomMmapAddr(run)

\* the threads of one process call the two functions concurrently
NextRngThreads ==
  \E t \in Threads :
    \/ SetRandomMmapSeed_Call(t)
    \/ GetRandomMmapAddr_Call(t)
    \/ MutexGuard_Lock(t)
    \/ Generator_Use(t)
    \/ MutexGuard_Unlock(t)

QuietMisc == QuietTz /\ QuietTls /\ QuietAbort /\ QuietRng

-----------------------------------------------------------------------------
(* The specifications of the virtual-memory component *)

\* the callers keep to the preconditions, so that no DCHECK can fail
InitMem ==
  /\ mem = [p \in Pages |-> FreePage]
  /\ thr = [t \in Threads |-> IdleThread]
  /\ use_aslr \in BOOLEAN
  /\ win10 \in BOOLEAN
  /\ discard_virtual_memory = "unresolved"
  /\ debug_build = FALSE
  /\ misuse = FALSE

\* the callers also break the preconditions, in a build with or without
\* DEBUG
InitMisuse ==
  /\ mem = [p \in Pages |-> FreePage]
  /\ thr = [t \in Threads |-> IdleThread]
  /\ use_aslr = TRUE
  /\ win10 = TRUE
  /\ discard_virtual_memory = "unresolved"
  /\ debug_build \in BOOLEAN
  /\ misuse = TRUE

\* the component at rest, in the specifications of the other components
\* the memory functions are not used
QuietMemory ==
  /\ mem = [p \in Pages |-> FreePage]
  /\ thr = [t \in Threads |-> IdleThread]
  /\ use_aslr = TRUE
  /\ win10 = TRUE
  /\ discard_virtual_memory = "unresolved"
  /\ misuse = FALSE

QuietMem == QuietMemory /\ debug_build = FALSE

AllocateStep(t) ==
  \/ AllocateCall(t)
  \/ RvaHinted(t)
  \/ RvaUnhinted(t)
  \/ FreeMisaligned(t)
  \/ FreePadded(t)
  \/ AllocTrimmed(t)

\* the threads allocate and free concurrently
NextMem == \E t \in Threads : AllocateStep(t) \/ Free(t)

\* one thread allocates and uses the five calls on its range
NextMemOps ==
  \/ AllocateStep("t1")
  \/ Free("t1")
  \/ Release("t1")
  \/ SetPermissions("t1")
  \/ DiscardSystemPages("t1")

\* the steps of a call of Allocate after its entry
AllocateProgress(t) ==
  \/ RvaHinted(t)
  \/ RvaUnhinted(t)
  \/ FreeMisaligned(t)
  \/ FreePadded(t)
  \/ AllocTrimmed(t)

\* one thread allocates and frees
NextAlloc == AllocateStep("t1") \/ Free("t1")

\* one thread allocates and calls Free, Release and SetPermissions
NextMisuse ==
  \/ AllocateStep("t1")
  \/ Free("t1")
  \/ Release("t1")
  \/ SetPermissions("t1")

InitMisuseSpec ==
  InitMisuse /\ aborted = "no" /\ QuietFile /\ QuietThread /\ QuietSym /\ QuietMisc

InitMemSpec ==
  InitMem /\ aborted = "no" /\ QuietFile /\ QuietThread /\ QuietSym /\ QuietMisc

InitFileSpec ==
  QuietMem /\ aborted = "no" /\ InitFile /\ QuietThread /\ QuietSym /\ QuietMisc

InitThreadSpec ==
  QuietMem /\ aborted = "no" /\ QuietFile /\ InitThread /\ QuietSym /\ QuietMisc

InitSymSpec ==
  QuietMem /\ aborted = "no" /\ QuietFile /\ QuietThread /\ InitSym /\ QuietMisc

SpecMem == InitMemSpec /\ [][NextMem]_vars

SpecMemOps == InitMemSpec /\ [][NextMemOps]_vars

SpecMisuse == InitMisuseSpec /\ [][NextMisuse]_vars

\* every request to the OS returns, so that a call that is inside Allocate
\* takes its next step
SpecAlloc ==
  InitMemSpec /\ [][NextAlloc]_vars /\ WF_vars(AllocateProgress("t1"))

InitTzSpec ==
  /\ QuietMem /\ aborted = "no" /\ QuietFile /\ QuietThread /\ QuietSym
  /\ InitTz /\ QuietTls /\ QuietAbort /\ QuietRng

\* a build with or without DEBUG
InitTlsSpec ==
  /\ QuietMemory /\ debug_build \in BOOLEAN
  /\ aborted = "no" /\ QuietFile /\ QuietThread /\ QuietSym
  /\ QuietTz /\ InitTls /\ QuietAbort /\ QuietRng

SpecTls == InitTlsSpec /\ [][NextTls]_vars

InitAbortSpec ==
  /\ QuietMem /\ aborted = "no" /\ QuietFile /\ QuietThread /\ QuietSym
  /\ QuietTz /\ QuietTls /\ InitAbort /\ QuietRng

SpecAbort == InitAbortSpec /\ [][NextAbort]_vars

InitRngSpec ==
  /\ QuietMem /\ aborted = "no" /\ QuietFile /\ QuietThread /\ QuietSym
  /\ QuietTz /\ QuietTls /\ QuietAbort /\ InitRng

SpecRng == InitRngSpec /\ [][NextRng]_vars

SpecRngThreads == InitRngSpec /\ [][NextRngThreads]_vars

SpecTz == InitTzSpec /\ [][NextTz]_vars

SpecTzOne == InitTzSpec /\ [][NextTzOne]_vars

SpecTzThreads == InitTzSpec /\ [][NextTzThreads]_vars

InitTzOffsetSpec ==
  /\ QuietMem /\ aborted = "no" /\ QuietFile /\ QuietThread /\ QuietSym
  /\ InitTzOffset /\ QuietTls /\ QuietAbort /\ QuietRng

SpecTzOffset == InitTzOffsetSpec /\ [][NextTzOffset]_vars

SpecFile == InitFileSpec /\ [][NextFile]_vars

SpecThread == InitThreadSpec /\ [][NextThread]_vars

SpecSym == InitSymSpec /\ [][NextSym]_vars

-----------------------------------------------------------------------------
(* Claims about the virtual-memory component *)

Returned(t) == thr[t].pc = "ret" /\ thr[t].result # nullptr

HeldRange(t) == RangeOf(thr[t].result, thr[t].size)

\* C1: a non-null result A of OS::Allocate is a multiple of the alignment
\* asked for, and exactly the size bytes from A on are the reservation made
\* by the call, with the protection and the commit state of the permission.
C1_AllocateAlignedExact ==
  \A t \in Threads :
    Returned(t) =>
      LET r == thr[t]
      IN  /\ r.result % r.alignment = 0
          /\ \A p \in Pages :
               (mem[p].base = r.result) <=> (p \in HeldRange(t))
          /\ \A p \in HeldRange(t) :
               /\ mem[p].prot = GetProtectionFromMemoryPermission(r.access)
               /\ mem[p].commit = ("MEM_COMMIT" \in AllocateFlags(r.access))

\* C1 (witness): a call got its range from the padded loop, on the second
\* attempt
C1_Witness ==
  \E t \in Threads :
    /\ Returned(t)
    /\ thr[t].i = 1
    /\ thr[t].alignment = 2 * AllocatePageSize

\* C2 (as amended): the ranges that concurrent calls of Allocate returned
\* and still hold are pairwise disjoint, and each non-null base returned is a
\* multiple of that call's alignment; a call may return null.
C2_ConcurrentDisjointAligned ==
  /\ \A t, u \in Threads :
       (t # u /\ Holding(t) /\ Holding(u)) =>
          HeldRange(t) \cap HeldRange(u) = {}
  /\ \A t \in Threads :
       Returned(t) => thr[t].result % thr[t].alignment = 0

\* C2 (witness): a call returned null only because another thread took the
\* aligned address on each of the kMaxAttempts attempts, while the other
\* thread's call returned a range
C2_Witness ==
  \E t, u \in Threads :
    /\ thr[t].pc = "ret" /\ thr[t].result = nullptr
    /\ thr[t].lost = kMaxAttempts
    /\ Returned(u)

\* C2 (as claimed): every concurrent call of Allocate succeeds, the ranges
\* returned are pairwise disjoint and each base is a multiple of the call's
\* alignment.
C2_EveryCallSucceeds ==
  /\ \A t \in Threads : thr[t].pc = "ret" => thr[t].result # nullptr
  /\ C2_ConcurrentDisjointAligned

\* C3 (as amended): a failed OS primitive in Free, Release or SetPermissions
\* is reported as false (and success as true) and the process goes on; the
\* process is aborted only by CHECK(Free(...)) in Allocate and by CHECK(ptr)
\* in DiscardSystemPages, which aborts exactly when its MEM_RESET request
\* fails and otherwise returns true.
C3_FailuresReportedOrChecked ==
  /\ aborted \in {"no", "CHECK(Free) in Allocate",
                  "CHECK(ptr) in DiscardSystemPages"}
  /\ \A t \in Threads :
       /\ thr[t].op \in {"Free", "Release", "SetPermissions"} =>
            thr[t].ret = ~thr[t].osfail
       /\ thr[t].op = "DiscardSystemPages" =>
            /\ thr[t].osfail <=> aborted = "CHECK(ptr) in DiscardSystemPages"
            /\ ~thr[t].osfail => thr[t].ret = TRUE

\* C3 (witness): the OS refused a call of Free and the caller was told so
C3_Witness ==
  \E t \in Threads :
    /\ thr[t].op = "Free"
    /\ thr[t].osfail
    /\ thr[t].ret = FALSE
    /\ aborted = "no"

\* C3 (as claimed): a failure of an OS primitive in Allocate, Free, Release,
\* SetPermissions or DiscardSystemPages is reported as null/false and never
\* aborts the process.
C3_NoAbort ==
  /\ aborted = "no"
  /\ \A t \in Threads : thr[t].osfail => thr[t].ret = FALSE

\* C11: after Free(A, size) has succeeded on a range obtained from Allocate,
\* the next call SetPermissions(A, size, p) of the caller on that range
\* returns false, whatever the permission p.
C11_SetPermissionsFailsAfterFree ==
  \A t \in Threads :
    thr[t].op = "SetPermissions on freed range" => thr[t].ret = FALSE

\* C11 (witness): SetPermissions was refused on a freed range for a permission
\* that commits and for the one that decommits
C11_Witness ==
  \E t \in Threads :
    /\ thr[t].op = "SetPermissions on freed range"
    /\ thr[t].access = "kReadWrite"
    /\ thr[t].ret = FALSE

\* C12: Allocate asks the OS for the address of the hint only when the
\* permission is executable (kReadExecute, kReadWriteExecute) or no-access
\* (kNoAccess, kNoAccessWillJitLater); for kRead and kReadWrite no request
\* of a call in progress has carried the hint.
C12_HintOnlyForExecutableOrNoAccess ==
  \A t \in Threads :
    thr[t].hinted =>
      thr[t].access \in {"kReadExecute", "kReadWriteExecute", "kNoAccess",
                         "kNoAccessWillJitLater"}

-----------------------------------------------------------------------------
(* Claims about memory mapped files *)

\* the assertions that a failed DCHECK of the four functions reaches
DCheckAborts ==
  {"DCHECK in Allocate", "DCHECK in Free", "DCHECK in Release",
   "DCHECK in SetPermissions"}

\* a call of thread t is inside Allocate
InAllocate(t) == thr[t].pc \notin {"idle", "held"}

\* C13 (as amended): in a build with DEBUG, a call that breaks a precondition
\* the function checks (Allocate and Free: multiples of the allocation
\* granularity, alignment at least the granularity; Release and
\* SetPermissions: multiples of the commit page size) reaches the fatal
\* assertion with no OS memory primitive invoked and returns nothing, so no
\* call is ever inside Allocate with such arguments.  In a build without DEBUG
\* no assertion is reached and the call goes on to the OS.  A call of Release
\* or SetPermissions whose address and size are multiples of the commit page
\* size but not of the allocation granularity reaches no assertion in either
\* build.
C13_ViolationsAssertOnlyInDebug ==
  /\ [](\A t \in Threads :
          /\ debug_build /\ thr[t].pre = "dcheck" =>
                /\ aborted \in DCheckAborts
                /\ thr[t].op \in {"Allocate", "Free", "Release", "SetPermissions"}
                /\ thr[t] = Fatal(thr[t].op)
          /\ debug_build /\ InAllocate(t) =>
                /\ thr[t].size % AllocatePageSize = 0
                /\ thr[t].alignment % AllocatePageSize = 0
                /\ AllocatePageSize <= thr[t].alignment
          /\ ~debug_build => aborted \notin DCheckAborts
          /\ thr[t].pre = "granularity" =>
                /\ thr[t].op \in {"Release", "SetPermissions",
                                  "SetPermissions on freed range"}
                /\ aborted = "no")
  /\ [][aborted' \in DCheckAborts => mem' = mem]_vars

\* a debug build stopped in the assertion of Free, and one of Release
C13_Witness ==
  /\ debug_build
  /\ aborted \in {"DCHECK in Free", "DCHECK in Release"}
  /\ \E t \in Threads : thr[t].pre = "dcheck" /\ thr[t].op \in {"Free", "Release"}

\* C13 (as stated): every call that breaks a precondition reaches a fatal
\* assertion
C13_EveryViolationAsserts ==
  \A t \in Threads : thr[t].pre # "ok" => aborted \in DCheckAborts

\* C14: LocalOffset is a function of the cached rule set and the time: a
\* call made with the same cache at the same time as the last one, the cache
\* holding the same configuration of the OS (not cleared since, or cleared
\* and read again with the configuration unchanged), returns the same result.
C14_LocalOffsetDeterministic ==
  tzlast.fn = "LocalOffset" => tzlast.again # "differs"

\* the offset of daylight saving time of a rule set, in milliseconds
DstOffsetOf(tzinfo) == -(tzinfo.Bias + tzinfo.DaylightBias) * 60000

\* the offset of standard time of a rule set, in milliseconds
StdOffsetOf(tzinfo) == -(tzinfo.Bias + tzinfo.StandardBias) * 60000

\* the rule set has a transition date
HasTransition(tzinfo) == tzinfo.StandardMonth # 0 \/ tzinfo.DaylightMonth # 0

\* C15 (as amended): InDST(t) holds exactly when the rule set has a
\* transition date (StandardDate.wMonth or DaylightDate.wMonth is not 0) and
\* LocalOffset(t) equals -(Bias + DaylightBias) minutes in milliseconds;
\* DaylightSavingsOffset(t) is 3,600,000 ms when InDST(t) holds and 0
\* otherwise; LocalTimezone(t) is the daylight name when InDST(t) holds and
\* the standard name otherwise.
C15_InDSTNeedsTransitionDate ==
  tzlast.fn # "none" =>
    /\ tzlast.in_dst <=>
         (HasTransition(tzlast.tzinfo) /\ tzlast.offset = DstOffsetOf(tzlast.tzinfo))
    /\ tzlast.dst_offset = IF tzlast.in_dst THEN 3600000 ELSE 0
    /\ tzlast.name = IF tzlast.in_dst THEN tzlast.dst_name ELSE tzlast.std_name

\* DaylightSavingsOffset was asked at a time of daylight saving time
C15_Witness ==
  /\ tzlast.fn = "DaylightSavingsOffset"
  /\ tzlast.in_dst
  /\ tzlast.dst_offset = 3600000
  /\ tzlast.offset = DstOffsetOf(tzlast.tzinfo)

\* C15 (as stated): InDST(t) holds exactly when LocalOffset(t) equals
\* -(Bias + DaylightBias) minutes in milliseconds
C15_InDSTIffOffset ==
  tzlast.fn # "none" =>
    (tzlast.in_dst <=> tzlast.offset = DstOffsetOf(tzlast.tzinfo))

\* the whole seconds of POSIX time of a JavaScript time, rounded down
WholeSeconds(jstime) == jstime \div 1000

\* C16 (as amended): LocalOffset returns 0 for every time whose whole-second
\* POSIX value is negative or greater than INT_MAX and for every time that
\* localtime_s fails to convert (with a 32-bit time_t, the seconds after
\* _MAX__TIME32_T); for every other time it returns
\* -(Bias + DaylightBias) * 60000 when daylight saving applies to the local
\* breakdown of the time and -(Bias + StandardBias) * 60000 when it does not.
C16_LocalOffsetZeroWhenNotConverted ==
  tzlast.fn = "LocalOffset" =>
    LET posix == WholeSeconds(tzlast.jstime)
    IN  tzlast.offset =
          IF posix < 0 \/ posix > INT_MAX \/ (time32 /\ posix > MAX__TIME32_T)
          THEN 0
          ELSE IF tzlast.isdst THEN DstOffsetOf(tzlast.tzinfo)
          ELSE StdOffsetOf(tzlast.tzinfo)

\* LocalOffset was asked, with a 32-bit time_t, at the last second an int
\* holds, and returned 0 in a zone that is not UTC
C16_Witness ==
  /\ tzlast.fn = "LocalOffset"
  /\ time32
  /\ WholeSeconds(tzlast.jstime) = INT_MAX
  /\ tzlast.offset = 0
  /\ StdOffsetOf(tzlast.tzinfo) # 0

\* C16 (as stated): LocalOffset returns 0 only for the times whose
\* whole-second POSIX value is negative or greater than INT_MAX
C16_LocalOffsetZeroOnlyOutOfInt ==
  tzlast.fn = "LocalOffset" =>
    LET posix == WholeSeconds(tzlast.jstime)
    IN  tzlast.offset =
          IF posix < 0 \/ posix > INT_MAX THEN 0
          ELSE IF tzlast.isdst THEN DstOffsetOf(tzlast.tzinfo)
          ELSE StdOffsetOf(tzlast.tzinfo)

\* C17: GetThreadLocal(key) of a thread that has not set the key returns
\* null, and otherwise the value of the last SetThreadLocal(key, v) of that
\* thread, whatever the other threads have set.
C17_GetReturnsOwnLastSet ==
  tls_last.thread # "none" =>
    tls_last.ret = IF tls_last.set = NotSet THEN nullptr ELSE tls_last.set

\* C18: the destructor unmaps the view, then closes the mapping handle, then
\* closes the file handle, each once; it skips the view exactly when the
\* object holds no view and the mapping exactly when it holds no mapping,
\* and afterwards the view is unmapped and both handles are closed.
C18_DestructorReleasesInOrder ==
  lastcall.op = "destroy" =>
    \A o \in lastcall.ret :
      LET view == IF o.memory_ # nullptr
                  THEN <<[call |-> "UnmapViewOfFile", arg |-> o.memory_]>>
                  ELSE <<>>
          mapping == IF o.file_mapping_ # nullptr
                     THEN <<[call |-> "CloseHandle", arg |-> o.file_mapping_]>>
                     ELSE <<>>
          file == <<[call |-> "CloseHandle", arg |-> o.file_]>>
      IN  /\ lastcall.released = view \o mapping \o file
          /\ o.memory_ # nullptr => ~views[o.memory_].mapped
          /\ \A h \in {o.file_mapping_, o.file_} \cap HandleIds :
               handles[h] = Closed

\* an object with a view and a mapping has been destroyed
C18_Witness ==
  /\ lastcall.op = "destroy"
  /\ Len(lastcall.released) = 3
  /\ \E o \in lastcall.ret : o.memory_ # nullptr /\ o.file_mapping_ # nullptr

\* the steps OS::Abort has made
AbortSteps == [i \in 1 .. Len(abort_call.log) |-> abort_call.log[i].step]

\* the position of a step in the log, 0 when it was not made
StepAt(step) ==
  IF \E i \in DOMAIN AbortSteps : AbortSteps[i] = step
  THEN CHOOSE i \in DOMAIN AbortSteps : AbortSteps[i] = step
  ELSE 0

\* C19: when OS::Abort has ended the process it has flushed stdout and
\* stderr before, it has ended it by the hard fault if g_hard_abort is set
\* and by the abort signal (raise(SIGABRT), then abort() if a handler
\* returned) otherwise, and on no path does the call go past its last
\* statement with the process alive.
C19_AbortFlushesThenTerminates ==
  /\ abort_call.pc = "dead" =>
       /\ aborted \in {"V8_IMMEDIATE_CRASH", "SIGABRT", "abort()"}
       /\ 0 < StepAt("fflush(stdout)")
       /\ StepAt("fflush(stdout)") < StepAt("fflush(stderr)")
       /\ StepAt("fflush(stderr)") < Len(abort_call.log)
       /\ abort_call.log[StepAt("fflush(stdout)")].buffered["stdout"] = 0
       /\ abort_call.log[StepAt("fflush(stderr)")].buffered["stderr"] = 0
       /\ g_hard_abort <=> aborted = "V8_IMMEDIATE_CRASH"
       /\ ~g_hard_abort => StepAt("raise(SIGABRT)") = StepAt("fflush(stderr)") + 1
  /\ aborted \in {"V8_IMMEDIATE_CRASH", "SIGABRT", "abort()"} =>
       abort_call.pc = "dead"
  /\ abort_call.pc \in {"none", "fflush(stdout)", "fflush(stderr)",
                         "terminate", "abort()", "dead"}

\* OS::Abort has ended a process with the hard-abort flag set, and one
\* without it
C19_Witness ==
  /\ abort_call.pc = "dead"
  /\ g_hard_abort
  /\ aborted = "V8_IMMEDIATE_CRASH"

\* the calls of a run that passed a seed other than 0
NonZeroCalls(run) ==
  {i \in DOMAIN rng_hist[run].calls : rng_hist[run].calls[i] # 0}

\* the last seed other than 0 a run has passed, 0 when there is none
LastSeed(run) ==
  IF NonZeroCalls(run) = {} THEN 0
  ELSE LET last == CHOOSE i \in NonZeroCalls(run) :
                     \A j \in NonZeroCalls(run) : j <= i
       IN  rng_hist[run].calls[last]

\* C20 (as amended): every call SetRandomMmapSeed(seed) with a seed other
\* than 0 reseeds the generator exactly once, a call with seed 0 does not
\* reseed it; two runs that call SetRandomMmapSeed with the same seed other
\* than 0 and then make the same sequence of GetRandomMmapAddr calls obtain
\* identical address sequences.
C20_NonZeroSeedReseeds ==
  /\ \A run \in Runs :
       rng_hist[run].reseeds = Cardinality(NonZeroCalls(run))
  /\ \A r1, r2 \in Runs :
       /\ LastSeed(r1) # 0
       /\ LastSeed(r1) = LastSeed(r2)
       /\ Len(rng_hist[r1].since_reseed) = Len(rng_hist[r2].since_reseed)
       => rng_hist[r1].since_reseed = rng_hist[r2].since_reseed

\* two runs have passed the same seed other than 0 and drawn MaxDraws
\* addresses each
C20_Witness ==
  /\ LastSeed("run1") # 0
  /\ LastSeed("run1") = LastSeed("run2")
  /\ Len(rng_hist["run1"].since_reseed) = MaxDraws
  /\ Len(rng_hist["run2"].since_reseed) = MaxDraws

\* the seed of the last call of a run; -1 when it has made none
LastCall(run) ==
  IF rng_hist[run].calls = <<>> THEN -1
  ELSE rng_hist[run].calls[Len(rng_hist[run].calls)]

\* C20 (as stated): every call reseeds exactly once, and two runs that call
\* SetRandomMmapSeed with the same seed and then make the same sequence of
\* GetRandomMmapAddr calls obtain identical address sequences
C20_EverySeedReseeds ==
  /\ \A run \in Runs : rng_hist[run].reseeds = Len(rng_hist[run].calls)
  /\ \A r1, r2 \in Runs :
       /\ rng_hist[r1].calls # <<>>
       /\ LastCall(r1) = LastCall(r2)
       /\ Len(rng_hist[r1].since_call) = Len(rng_hist[r2].since_call)
       => rng_hist[r1].since_call = rng_hist[r2].since_call

-----------------------------------------------------------------------------
(* Claims about the padded retry of OS::Allocate *)

\* the pages of the region reserved at base
RegionAt(base) == {p \in Pages : mem[p].base = base}

\* a call of thread t is between the entry and the return of Allocate
BusyInAllocate(t) ==
  thr[t].pc \in {"rva_hint", "rva_nohint", "free_first", "free_padded", "pin"}

\* C21: when the first exact-size allocation comes back misaligned, Allocate
\* makes at most 3 padded attempts; each reserves size + alignment -
\* granularity bytes, frees that region and requests exactly size bytes at
\* the aligned address inside it; Allocate returns null at once when a padded
\* request fails, the pinned address on the first pinned success, and null
\* after the third pinned failure; every call of Allocate returns (or the
\* process is stopped by a CHECK).
C21_PaddedRetryBounded ==
  /\ [](\A t \in Threads :
          LET r == thr[t]
          IN  /\ r.i <= 3
              /\ r.padded => r.i < 3
              /\ r.pc = "free_padded" =>
                    RegionAt(r.base) =
                      RangeOf(r.base, r.size + r.alignment - AllocatePageSize)
              /\ r.pc = "pin" /\ Running =>
                    /\ RegionAt(r.base) = {}
                    /\ r.aligned_base = RoundUp(r.base, r.alignment))
  /\ [][\A t \in Threads :
          LET r == thr[t]
              n == thr'[t]
          IN  /\ (r.padded /\ r.pc = "rva_nohint" /\ n # r /\ mem' = mem) =>
                    n.pc = "ret" /\ n.result = nullptr
              /\ (r.pc = "pin" /\ n # r) =>
                    IF mem' # mem
                    THEN /\ n.pc = "ret" /\ n.result = r.aligned_base
                         /\ {p \in Pages : mem'[p].base = n.result} =
                              RangeOf(n.result, r.size)
                    ELSE IF r.i < 2
                    THEN n.pc = "rva_hint" /\ n.padded /\ n.i = r.i + 1
                    ELSE n.pc = "ret" /\ n.result = nullptr]_vars
  /\ \A t \in Threads :
       BusyInAllocate(t) ~> (thr[t].pc = "ret" \/ ~Running)

\* a call returned null after the third pinned request had failed
C21_Witness ==
  \E t \in Threads :
    thr[t].pc = "ret" /\ thr[t].result = nullptr /\ thr[t].i = 3

\* C22: the only reserved ranges are the ranges that calls of Allocate
\* returned and their callers hold, and the region of a call that has not
\* returned yet and is about to free it: a call that has returned, null or
\* not, has left no misaligned and no padded region behind.
C22_OnlyReturnedRangesReserved ==
  \A p \in Pages :
    mem[p].base # nullptr =>
      \E t \in Threads :
        \/ Holding(t) /\ mem[p].base = thr[t].result /\ p \in HeldRange(t)
        \/ /\ thr[t].pc \in {"free_first", "free_padded"}
           /\ mem[p].base = thr[t].base

\* a call returned null after a misaligned region and a padded one, and
\* nothing is reserved
C22_Witness ==
  /\ \E t \in Threads :
       thr[t].pc = "ret" /\ thr[t].result = nullptr /\ thr[t].i >= 1
  /\ \A p \in Pages : mem[p].base = nullptr

\* C23: in each exact-size or padded step of Allocate a hinted request that
\* fails is followed by one request with no address, after which the step is
\* over; the step reports null only when that request has failed too; a
\* hinted request that succeeds ends the step.
C23_UnhintedRetryOnce ==
  [][\A t \in Threads :
       LET r == thr[t]
           n == thr'[t]
           over == n.pc \in {"ret", "free_first", "free_padded"}
           null == n.pc = "ret" /\ n.result = nullptr
       IN  /\ (r.pc = "rva_hint" /\ n # r) =>
                 IF mem' # mem THEN over /\ ~null ELSE n.pc = "rva_nohint"
           /\ (r.pc = "rva_nohint" /\ n # r) =>
                 over /\ (null <=> mem' = mem)
           /\ (r.pc \in {"rva_hint", "rva_nohint"} /\ null) =>
                 r.pc = "rva_nohint" /\ mem' = mem]_vars

\* the request at the caller's hint has failed and the one with no address
\* is next
C23_Witness ==
  \E t \in Threads :
    /\ thr[t].pc = "rva_nohint"
    /\ thr[t].hinted
    /\ UsesHint(use_aslr, GetProtectionFromMemoryPermission(thr[t].access))

\* the alignments that are multiples of the allocation granularity
GranularAlignments == {k * AllocatePageSize : k \in 1 .. MaxGranules}

\* the range of size bytes at the aligned address lies in the padded region
\* at base
PinnedInsidePadded(base, aligned, size, alignment) ==
  /\ base <= aligned
  /\ aligned + size <= base + size + alignment - AllocatePageSize

\* C24: for every base that is a multiple of the granularity and every
\* alignment that is a multiple of the granularity, RoundUp(base, alignment)
\* is at least base and the size bytes from it on end inside the padded
\* region of size + alignment - granularity bytes at base; so the range that
\* Allocate pins lies inside the padded region it has just freed.
C24_PinnedRangeInsidePadded ==
  /\ \A base \in RegionBases, alignment \in GranularAlignments,
        size \in GranularAlignments :
       PinnedInsidePadded(base, TrimmedAddress(base, alignment), size,
                          alignment)
  /\ \A t \in Threads :
       thr[t].pc = "pin" =>
         PinnedInsidePadded(thr[t].base, thr[t].aligned_base, thr[t].size,
                            thr[t].alignment)

\* the padded region came back misaligned: the pinned request is made at
\* an address inside it, above its base
C24_Witness ==
  \E t \in Threads :
    thr[t].pc = "pin" /\ thr[t].base < thr[t].aligned_base

-----------------------------------------------------------------------------
(* Claims about the permissions *)

\* thread t holds a range that SetPermissions changed to access, or that
\* Release decommitted, in the last call it made
LastCallOnRange(t, op, access) ==
  /\ thr[t].pc = "held"
  /\ thr[t].op = op
  /\ thr[t].access = access
  /\ thr[t].ret = TRUE

\* the pages the last call of thread t passed to the OS
LastRange(t) == RangeOf(thr[t].result, thr[t].opsize)

\* C25: Allocate and SetPermissions called with kNoAccessWillJitLater leave
\* the range in the protection and in the reserved/committed state in which
\* the same call with kNoAccess leaves it: PAGE_NOACCESS and not committed.
C25_WillJitLaterAsNoAccess ==
  \A t \in Threads :
    /\ (Returned(t) /\ thr[t].access = "kNoAccessWillJitLater") =>
          \A p \in HeldRange(t) :
            /\ mem[p].prot = GetProtectionFromMemoryPermission("kNoAccess")
            /\ mem[p].commit = ("MEM_COMMIT" \in AllocateFlags("kNoAccess"))
    /\ LastCallOnRange(t, "SetPermissions", "kNoAccessWillJitLater") =>
          \A p \in LastRange(t) : ~mem[p].commit

\* the last call of thread t was a successful Release, or a successful
\* SetPermissions with kNoAccess, on the range it holds
Decommitted(r) ==
  /\ r.pc = "held"
  /\ r.op = "Release" \/ (r.op = "SetPermissions" /\ r.access = "kNoAccess")
  /\ r.ret = TRUE

-----------------------------------------------------------------------------
(* Claims about the random source *)

\* C27: every address that GetRandomMmapAddr returns lies in the window,
\* kAllocationRandomAddressMin <= address <= kAllocationRandomAddressMax.
C27_AddressInsideWindow ==
  \A run \in Runs :
    \A i \in DOMAIN rng_hist[run].since_call :
      /\ kAllocationRandomAddressMin <= rng_hist[run].since_call[i]
      /\ rng_hist[run].since_call[i] <= kAllocationRandomAddressMax

\* C28: a thread is inside the guarded part of SetRandomMmapSeed or
\* GetRandomMmapAddr only while it holds rng_mutex, so no two threads are
\* there at once, and every step that makes, reseeds or draws from the
\* process-wide generator is taken by the thread that holds the mutex.
C28_GeneratorUnderMutex ==
  /\ [](\A t \in Threads :
          rng_thr[t].pc \in {"inside", "done"} => rng_mutex = t)
  /\ [](Cardinality({t \in Threads : rng_thr[t].pc \in {"inside", "done"}})
          <= 1)
  /\ [][rng' # rng =>
          \E t \in Threads :
            /\ rng_mutex = t
            /\ rng_thr[t].pc = "inside" /\ rng_thr'[t].pc = "done"
            /\ \A u \in Threads \ {t} : rng_thr[u].pc \notin {"inside", "done"}]_vars

\* one thread is about to reseed the generator while another waits for the
\* mutex to draw from it
C28_Witness ==
  \E t, u \in Threads :
    /\ rng_thr[t].pc = "inside" /\ rng_thr[t].fn = "SetRandomMmapSeed"
    /\ rng_thr[u].pc = "lock" /\ rng_thr[u].fn = "GetRandomMmapAddr"

-----------------------------------------------------------------------------
(* Claims about the life cycle of the time zone cache *)

\* the snapshot that a cache holds
Snapshot(cache) ==
  <<cache.initialized_, cache.tzinfo_, cache.std_tz_name_, cache.dst_tz_name_>>

\* the step is a call of LocalOffset, DaylightSavingsOffset (InDST) or
\* LocalTimezone with cache c
QueryStep(c) == tzlast' # tzlast /\ tzlast'.cache = c

\* C29: a query made with an initialized cache leaves the snapshot as it is
\* and reads nothing from the OS, however many times it calls
\* InitializeIfNeeded; a query made with a cache that is new or was cleared
\* reads the configuration of the OS exactly once and leaves the cache
\* initialized with it; Clear only resets the flag.
C29_ReadOnlyOnFirstUse ==
  [][\A c \in Caches :
       /\ QueryStep(c) =>
             IF tzcache[c].initialized_
             THEN /\ tzlast'.os_reads = 0
                  /\ Snapshot(tzcache'[c]) = Snapshot(tzcache[c])
                  /\ crt_tz' = crt_tz
             ELSE /\ tzlast'.os_reads = 1
                  /\ tzcache'[c].initialized_
                  /\ tzcache'[c].tzinfo_ = ReadTzinfo(os_config)
                  /\ tzcache'[c].read = OsConfigName(os_config)
       /\ (tzcache'[c].initialized_ # tzcache[c].initialized_
             /\ tzcache[c].initialized_) =>
             tzcache' = [tzcache EXCEPT ![c].initialized_ = FALSE]]_vars

\* the cache was cleared after the configuration had changed, and a call of
\* LocalTimezone, which calls InitializeIfNeeded twice, has read it once
C29_Witness ==
  \E c \in Caches :
    /\ tzlast.cache = c
    /\ tzlast.fn = "LocalTimezone"
    /\ tzlast.os_reads = 1
    /\ tzcache[c].asked.read \notin {"none", tzcache[c].read}
    /\ InitializeCalls(tzlast.fn, tzcache[c].tzinfo_) = 2

\* C30: when several threads call LocalOffset with the same cache while it is
\* not initialized, or while another thread clears it, every call returns
\* what the fully initialized snapshot gives for its time, and no call reads
\* a rule set that is zeroed or partly filled.
C30_ConcurrentQueriesSeeSnapshot ==
  \A t \in Threads :
    tz_thr[t].returned =>
      /\ tz_thr[t].seen = ReadTzinfo(os_config)
      /\ tz_thr[t].ret =
            LocalOffset(ReadTzinfo(os_config), [dst |-> os_config.dst],
                        time32, Win32Time(tz_thr[t].jstime))

-----------------------------------------------------------------------------
(* Claims about the contents of the time zone cache *)

\* C31: when GetTimeZoneInformation fails, the initialized cache holds the
\* fixed rule: bias -60 minutes, standard bias 0, daylight bias -60, standard
\* transition month 10, day 5, hour 3, daylight transition month 3, day 5,
\* hour 2, and the names "Central Europe Standard Time" and "Central Europe
\* Daylight Time" made from the bias table.
C31_DefaultRuleOnFailure ==
  \A c \in Caches :
    (tzcache[c].initialized_ /\ tzcache[c].read = "invalid") =>
      /\ tzcache[c].tzinfo_.Bias = -60
      /\ tzcache[c].tzinfo_.StandardBias = 0
      /\ tzcache[c].tzinfo_.DaylightBias = -60
      /\ tzcache[c].tzinfo_.StandardMonth = 10
      /\ tzcache[c].tzinfo_.StandardDay = 5
      /\ tzcache[c].tzinfo_.StandardHour = 3
      /\ tzcache[c].tzinfo_.DaylightMonth = 3
      /\ tzcache[c].tzinfo_.DaylightDay = 5
      /\ tzcache[c].tzinfo_.DaylightHour = 2
      /\ tzcache[c].std_tz_name_ = <<"Central Europe", "Standard Time">>
      /\ tzcache[c].dst_tz_name_ = <<"Central Europe", "Daylight Time">>

\* a cache that held the rule set of another time zone was cleared and has
\* been initialized while the OS gave no time zone information
C31_Witness ==
  \E c \in Caches :
    /\ tzcache[c].initialized_
    /\ tzcache[c].read = "invalid"
    /\ tzcache[c].asked.read \notin {"none", "invalid"}

\* C32: for every cached rule set, WindowsTimezoneCache::LocalTimeOffset
\* returns -(Bias + StandardBias) * 60000 ms, the offset east of UTC without
\* daylight saving, whether daylight saving is in effect at the time it
\* evaluates or not.
C32_LocalTimeOffsetIsStandardOffset ==
  tzlast.fn = "LocalTimeOffset" =>
    tzlast.local_time_offset =
      -(tzlast.tzinfo.Bias + tzlast.tzinfo.StandardBias) * kMsPerMinute

\* C33: create copies initial_bytes into the mapped view only when
\* initial_bytes is non-null; with a null initial_bytes it performs no copy and
\* still returns a read-write mapping of size bytes.
C33_CopyOnlyFromNonNull ==
  lastcall.op = "create" =>
    /\ lastcall.memmove => lastcall.initial = "buffer"
    /\ (lastcall.initial = "nullptr" /\ ~lastcall.failed) =>
          /\ Running
          /\ \E o \in lastcall.ret : o.size_ = lastcall.size
          /\ \A o \in lastcall.ret :
                o.size_ # 0 =>
                  /\ o.memory_ # nullptr
                  /\ views[o.memory_].mapped
                  /\ views[o.memory_].size = o.size_

\* C34: the handle of a Thread object is invalid from construction until
\* Start(), is a valid handle after a successful Start(), and the destructor
\* closes a handle if and only if a Start() on the object succeeded; a
\* never-started object or one whose Start() failed never has a handle closed,
\* and no handle is closed twice.
C34_HandleClosedIffStarted ==
  /\ start.pc = "constructed" => thread_ = kNoThread
  /\ start.pc = "started" => thread_ = NewThreadHandle
  /\ start.pc = "destroyed" => (start.closed # <<>> <=> start.result # 0)
  /\ start.pc # "destroyed" => start.closed = <<>>
  /\ Len(start.closed) <= 1

C36_SnapshotClosedOnReturn ==
  snapshots =
    Cardinality({c \in Callers : caller[c].pc \in {"ls_loop", "ls_finish"}})

OpenOrCreate == lastcall.op \in {"open", "create"}

\* C4: open and create return null whenever one of their OS steps fails, and
\* never return an object whose size is not zero and whose memory is null.
C4_NullOnOsFailure ==
  OpenOrCreate =>
    /\ lastcall.failed => lastcall.ret = {}
    /\ \A o \in lastcall.ret : o.size_ # 0 => o.memory_ # nullptr

\* C5: when open or create returns null, the handles it opened are closed:
\* the open handles are those of before the call.
C5_NoHandleLeftOpen ==
  (OpenOrCreate /\ lastcall.ret = {} /\ Running) =>
     OpenHandles = lastcall.before

\* C6: after create(path, size, data), whatever the file was before, an
\* open(path) that succeeds yields a mapping of size bytes holding data.
C6_CreateOpenRoundTrip ==
  (lastcall.op = "open" /\ ~lastcall.failed) =>
     \A c \in created[lastcall.name] :
       \A o \in lastcall.ret :
         /\ o.size_ = c.size
         /\ o.size_ # 0 => ViewContent(o.memory_) = c.data

-----------------------------------------------------------------------------
(* Claims about threads *)

\* C7: after a successful Start(), a Join() by another thread returns only
\* once the run entry point of the spawned thread has completed, and a Join()
\* by the spawned thread on its own object returns without waiting.
C7_JoinWaitsForRunExceptSelf ==
  /\ \A j \in Joiners :
       (joiner[j].afterStart /\ joiner[j].pc = "returned") =>
          osthread = "terminated"
  /\ selfjoin.afterStart => selfjoin.pc # "waiting"

\* C7 (witness): after a successful Start() the spawned thread joined itself
\* and went on, and the creator's Join() has returned
C7_Witness ==
  /\ selfjoin.afterStart /\ selfjoin.pc = "returned"
  /\ joiner["main"].afterStart /\ joiner["main"].pc = "returned"
  /\ osthread = "terminated"

-----------------------------------------------------------------------------
(* Claims about symbol loading *)

\* C8: once one call of GetSharedLibraryAddresses has completed a successful
\* enumeration pass, every later call returns the identical sequence and
\* neither loads the libraries nor initialises the symbol engine, creates a
\* snapshot or enumerates modules.
C8_MemoisedAfterSuccess ==
  \A c \in Callers :
    (caller[c].pc = "returned" /\ caller[c].afterSuccess) =>
       /\ caller[c].ret \in memo
       /\ ~caller[c].symwork
       /\ ~caller[c].attempted

C10_ConcurrentFirstCallsConverge ==
  /\ \A c \in Callers :
       caller[c].pc = "returned" => caller[c].ret \in {<<>>, Modules}
  /\ symbols_loaded => result = Modules

=============================================================================
